---- MODULE Spec2Model ----
(***************************************************************************)
(* A model of npsolve's state-aggregation and stepping core                *)
(* (src/npsolve/core.py): Slicer, Package and the legacy Solver/Partial.   *)
(*                                                                         *)
(* Python objects are modelled as follows.                                 *)
(*   - a dict is a sequence of <<key, value>> pairs in insertion order;    *)
(*   - a 1-d ndarray is a sequence of integers;                            *)
(*   - a slice(start, stop) is the pair <<start, stop>>, 0-based and       *)
(*     half-open as in Python, so it covers elements start+1..stop of a    *)
(*     TLA+ sequence;                                                      *)
(*   - an ndarray view is [buf, start, stop, writeable]: it holds no data  *)
(*     of its own and reads and writes the buffer it names;                *)
(*   - a bound method is [obj, meth];                                      *)
(*   - a raised exception is the "err" field of the operation's result.    *)
(***************************************************************************)
EXTENDS Integers, Sequences, FiniteSets, TLC

\* ------------------------------------------------------------------ bounds

\* Registration calls (add_component, add_stage_call) explored per behaviour.
MaxRegs == 3

\* ------------------------------------------------------------- dict helpers

Range(s) == {s[n] : n \in DOMAIN s}

DictKeys(d) == [n \in DOMAIN d |-> d[n][1]]

DictHas(d, k) == \E n \in DOMAIN d : d[n][1] = k

DictIndex(d, k) == CHOOSE n \in DOMAIN d : d[n][1] = k

DictGet(d, k) == d[DictIndex(d, k)][2]

\* d[k] = v: an existing key keeps its position, a new key goes last.
DictPut(d, k, v) ==
    IF DictHas(d, k)
    THEN [d EXCEPT ![DictIndex(d, k)] = <<k, v>>]
    ELSE Append(d, <<k, v>>)

Zeros(n) == [j \in 1..n |-> 0]

\* ------------------------------------------------------------------ Slicer

EmptySlicer == [slices |-> <<>>, i |-> 0]

\* An add that stores the slice and does not advance the running length.
SlicerAddNoAdvance(s, key, val) ==
    [slices |-> DictPut(s.slices, key, <<s.i, s.i + Len(val)>>), i |-> s.i]

\* Slicer.add(key, val): there is no test for a key that already has a slice.
SlicerAdd(s, key, val) ==
    [slices |-> DictPut(s.slices, key, <<s.i, s.i + Len(val)>>),
     i |-> s.i + Len(val)]

RECURSIVE SlicerAddDict(_, _)
SlicerAddDict(s, dct) ==
    IF dct = <<>> THEN s
    ELSE SlicerAddDict(SlicerAdd(s, Head(dct)[1], Head(dct)[2]), Tail(dct))

SlicerGetSlice(s, key) == DictGet(s.slices, key)

Min(a, b) == IF a < b THEN a ELSE b

\* The number of elements slice slc selects from an array of length n.
SliceLen(n, slc) == Min(slc[2], n) - Min(slc[1], n)

\* vec[slc] = val, numpy's assignment to a slice of a 1-d array of length n:
\* val has the length of the selection, or length 1 and is broadcast.
CanAssign(n, slc, val) == Len(val) = SliceLen(n, slc) \/ Len(val) = 1

SliceAssign(vec, slc, val) ==
    [j \in DOMAIN vec |->
        IF slc[1] < j /\ j <= slc[2]
        THEN (IF Len(val) = 1 THEN val[1] ELSE val[j - slc[1]])
        ELSE vec[j]]

SliceRead(vec, slc) == [j \in 1..(slc[2] - slc[1]) |-> vec[slc[1] + j]]

\* vec[self.get_slice(key)] with its writeable flag set; n is len(vec), and
\* numpy clips a slice to the array it is taken from.
SlicerGetView(s, buf, n, key, writeable) ==
    [buf |-> buf, start |-> Min(SlicerGetSlice(s, key)[1], n),
     stop |-> Min(SlicerGetSlice(s, key)[2], n), writeable |-> writeable]

\* The loop of get_state_vec: state[self.get_slice(key)] = val for each item,
\* stopping at the first key that has no slice (KeyError) or value that does
\* not fit its slice (ValueError).
RECURSIVE ScatterDict(_, _, _)
ScatterDict(s, vec, dct) ==
    IF dct = <<>> THEN [vec |-> vec, err |-> "none"]
    ELSE IF ~DictHas(s.slices, Head(dct)[1]) THEN [vec |-> vec, err |-> "KeyError"]
    ELSE IF ~CanAssign(Len(vec), SlicerGetSlice(s, Head(dct)[1]), Head(dct)[2])
         THEN [vec |-> vec, err |-> "ValueError"]
    ELSE ScatterDict(s,
                     SliceAssign(vec, SlicerGetSlice(s, Head(dct)[1]), Head(dct)[2]),
                     Tail(dct))

SlicerGetStateVec(s, dct) == ScatterDict(s, Zeros(s.i), dct)

\* Slicer.get_state(state_vec, keys, writeable) for keys that have slices.
SlicerGetState(s, buf, n, keys, writeable) ==
    [j \in DOMAIN keys |-> <<keys[j], SlicerGetView(s, buf, n, keys[j], writeable)>>]

\* ------------------------------------------------------------- ndarray views

ViewRead(bufs, view) == SliceRead(bufs[view.buf], <<view.start, view.stop>>)

\* view[:] = val on a view: numpy raises ValueError("assignment destination is
\* read-only") when the view's writeable flag is off, and otherwise writes the
\* buffer the view shares.
ViewWrite(bufs, view, val) ==
    IF ~view.writeable
       \/ ~CanAssign(Len(bufs[view.buf]), <<view.start, view.stop>>, val)
    THEN [bufs |-> bufs, err |-> "ValueError"]
    ELSE [bufs |-> [bufs EXCEPT ![view.buf] =
                        SliceAssign(@, <<view.start, view.stop>>, val)],
          err |-> "none"]

\* What a callee reads through a name->view mapping.
ViewsRead(bufs, views) ==
    [n \in DOMAIN views |-> <<views[n][1], ViewRead(bufs, views[n][2])>>]

\* ----------------------------------------------------------------- state

VARIABLES
    components,     \* Package._components: name -> object
    deriv_methods,  \* Package._deriv_methods: name -> bound method
    stage_calls,    \* Package._stage_calls: list of (name, bound method)
    ready,          \* setup has run: the attributes below exist
    slicer,         \* Package.slicer
    state_vec,      \* Package._state_vec
    ret_vec,        \* Package._ret_vec
    state,          \* Package._state: name -> read-only view of state_vec
    ret,            \* Package._ret: name -> writable view of ret_vec
    inits,          \* Package.inits
    init_vec,       \* Package.init_vec
    F,              \* the objects' private fields
    trace,          \* the calls the last step made, in order
    result,         \* the last operation, its arguments and its outcome
    nRegs,          \* registration calls made so far
    regOrder,       \* component names, by latest derivative registration
    held            \* the vector the caller keeps from a step it made

pkgVars == <<components, deriv_methods, stage_calls, ready, slicer, state_vec,
             ret_vec, state, ret, inits, init_vec, F, trace, result,
             nRegs, regOrder, held>>

VARIABLES
    sl,         \* a Slicer: its _slices and _i
    sl_vec,     \* the vector the caller last built with get_state_vec
    sl_views,   \* the name -> view mapping the caller last got from get_state
    sl_result   \* the last Slicer operation, its arguments and its outcome

slicerVars == <<sl, sl_vec, sl_views, sl_result>>

VARIABLES
    npsolve_vars,           \* Partial.npsolve_vars of each Partial: name -> init
    pstate,                 \* Partial.state of each Partial while it is its own dict
    pshared,                \* Partial.state is the Solver's npsolve_state_dct
    partials,               \* Solver._partials
    solver_ready,           \* npsolve_init has completed: the attributes below exist
    npsolve_variables,      \* Solver.npsolve_variables
    npsolve_slices,         \* Solver.npsolve_slices
    npsolve_state,          \* Solver.npsolve_state
    npsolve_ret,            \* Solver.npsolve_ret
    npsolve_initial_values, \* Solver.npsolve_initial_values
    npsolve_state_dct,      \* Solver.npsolve_state_dct
    npsolve_ret_dct,        \* Solver.npsolve_ret_dct
    step_methods,           \* Solver._step_methods: the Partials whose step is called
    step_kind,              \* what the step method of each Partial does when called
    solver_result           \* the last Solver or Partial operation and its outcome

solverBufs == <<solver_ready, npsolve_variables, npsolve_slices, npsolve_state,
                npsolve_ret, npsolve_initial_values, npsolve_state_dct,
                npsolve_ret_dct, step_methods>>

solverVars == <<npsolve_vars, pstate, pshared, partials, solverBufs, step_kind,
                solver_result>>

VARIABLES
    framerate,  \* Integrator.framerate
    status,     \* the status dict: status[FINAL] and status[STOP]
    logger,     \* the logger: the series of x_name and a series a component logs
    i_pc,       \* where Integrator.run is
    i_run,      \* the locals of Integrator.run
    i_trace,    \* the integrate() calls and step evaluations of the run
    i_result    \* what the last run returned or raised

integratorVars == <<framerate, status, logger, i_pc, i_run, i_trace, i_result>>

VARIABLES
    cache_enabled,          \* cache_enabled of each decorated method
    cache,                  \* cache of each decorated method: key -> result
    cache_first,            \* per method and instance: the result of the first call
                            \* made with caching on since the cache was last emptied
    cache_clear_functions,  \* Solver._cache_clear_functions
    cache_result            \* the last direct use of a cached method

cacheVars == <<cache_enabled, cache, cache_first, cache_clear_functions,
               cache_result>>

VARIABLES
    vs_dct,     \* V_Set._dct: name -> index or slice
    vs_n,       \* V_Set._n
    vs_locked,  \* V_Set._locked
    vs_result   \* the last call on the V_Set and how it ended

vsetVars == <<vs_dct, vs_n, vs_locked, vs_result>>

vars == <<pkgVars, slicerVars, solverVars, integratorVars, cacheVars, vsetVars>>

notPkg == <<slicerVars, solverVars, integratorVars, cacheVars, vsetVars>>

notSlicer == <<pkgVars, solverVars, integratorVars, cacheVars, vsetVars>>

notSolver == <<pkgVars, slicerVars, integratorVars, vsetVars>>

notIntegrator == <<pkgVars, slicerVars, solverVars, cacheVars, vsetVars>>

notCache == <<pkgVars, slicerVars, solverVars, integratorVars, vsetVars>>

notVSet == <<pkgVars, slicerVars, solverVars, integratorVars, cacheVars>>

\* ------------------------------------------------- a Slicer used on its own

\* Largest total length of the standalone Slicer explored.
MaxSlicerLen == 4


SlOp(op, err) == [op |-> op, err |-> err, key |-> "", dct |-> <<>>, src |-> <<>>]

SlicerInit ==
    /\ sl = EmptySlicer
    /\ sl_vec = <<>>
    /\ sl_views = <<>>
    /\ sl_result = SlOp("init", "none")

RECURSIVE DictTotalLen(_)
DictTotalLen(dct) ==
    IF dct = <<>> THEN 0 ELSE Len(Head(dct)[2]) + DictTotalLen(Tail(dct))

\* Slicer.add(key, val)
Slicer_add(key, val) ==
    /\ sl.i + Len(val) <= MaxSlicerLen
    /\ sl' = SlicerAdd(sl, key, val)
    /\ sl_result' = [SlOp("add", "none") EXCEPT !.key = key]
    /\ UNCHANGED <<sl_vec, sl_views, notSlicer>>

\* Slicer.add_dict(dct)
Slicer_add_dict(dct) ==
    /\ sl.i + DictTotalLen(dct) <= MaxSlicerLen
    /\ sl' = SlicerAddDict(sl, dct)
    /\ sl_result' = [SlOp("add_dict", "none") EXCEPT !.dct = dct]
    /\ UNCHANGED <<sl_vec, sl_views, notSlicer>>

\* vec = Slicer.get_state_vec(dct): a new array, so the views of the old one
\* go with it.
Slicer_get_state_vec(dct) ==
    LET r == SlicerGetStateVec(sl, dct)
    IN  /\ sl_result' = [SlOp("get_state_vec", r.err) EXCEPT !.dct = dct]
        /\ IF r.err = "none"
           THEN sl_vec' = r.vec /\ sl_views' = <<>>
           ELSE UNCHANGED <<sl_vec, sl_views>>
        /\ UNCHANGED <<sl, notSlicer>>

\* views = Slicer.get_state(vec, keys, writeable): get_slice raises KeyError
\* for a key without a slice. src records the mapping vec was built from when
\* the call directly follows that get_state_vec.
Slicer_get_state(keys, writeable) ==
    /\ IF \E n \in DOMAIN keys : ~DictHas(sl.slices, keys[n])
       THEN /\ sl_result' = SlOp("get_state", "KeyError")
            /\ UNCHANGED sl_views
       ELSE /\ sl_views' = SlicerGetState(sl, "sl_vec", Len(sl_vec), keys, writeable)
            /\ sl_result' = [SlOp("get_state", "none") EXCEPT
                   !.src = IF sl_result.op = "get_state_vec" /\ sl_result.err = "none"
                           THEN sl_result.dct ELSE <<>>]
    /\ UNCHANGED <<sl, sl_vec, notSlicer>>

SlKeys == {"a", "b"}

\* Templates handed to add: only their length matters.
SlTemplates == {<<0>>, <<0, 0>>}

\* Mappings handed to add_dict and get_state_vec.
SlDicts ==
    { << <<"a", <<1, 2>>>> >>,
      << <<"a", <<3>>>>, <<"b", <<4, 5>>>> >>,
      << <<"b", <<6>>>>, <<"a", <<7>>>> >> }

SlKeyLists == {<<"a">>, <<"a", "b">>, <<"b", "a">>}

SlicerNext ==
    \/ \E k \in SlKeys, v \in SlTemplates : Slicer_add(k, v)
    \/ \E d \in SlDicts : Slicer_add_dict(d)
    \/ \E d \in SlDicts : Slicer_get_state_vec(d)
    \/ \E ks \in SlKeyLists, w \in BOOLEAN : Slicer_get_state(ks, w)

\* ------------------------------------------------- components (user objects)

\* The objects handed to add_component. Each has one private field, priv[obj]
\* (the _F_tether of the tutorial's Slider and Pendulum), and three methods.
Objs == {"o1", "o2"}

MethodNames == {"get_derivs", "set_forces", "poke"}

\* getattr(obj, meth) succeeds.
HasAttr(obj, meth) == meth \in MethodNames

\* The variables whose derivatives an object's get_derivs returns. Both
\* objects return "v": the code lets derivative methods share a key.
DerivKeys(obj) == IF obj = "o1" THEN <<"p", "v">> ELSE <<"v">>

\* A constructor parameter (the tutorial's mass) that tells the objects apart.
Rank(obj) == IF obj = "o1" THEN 0 ELSE 1

NoneRet == [isDict |-> FALSE, items |-> <<>>]

SeenOf(seen, k) == DictGet(seen, k)

\* get_derivs(state, t, log): a derivative method. It reads state[k] for each
\* of its keys (KeyError when the key was not set up) and its private field.
GetDerivs(obj, views, bufs, t, priv) ==
    LET seen == ViewsRead(bufs, views)
        keys == DerivKeys(obj)
    IN  IF \E n \in DOMAIN keys : ~DictHas(views, keys[n])
        THEN [F |-> priv, bufs |-> bufs, ret |-> NoneRet, err |-> "KeyError"]
        ELSE [F |-> priv, bufs |-> bufs,
              ret |-> [isDict |-> TRUE,
                       items |-> [n \in DOMAIN keys |->
                           <<keys[n],
                             [j \in DOMAIN SeenOf(seen, keys[n]) |->
                                 SeenOf(seen, keys[n])[j] + priv[obj] + t + Rank(obj)]>>]],
              err |-> "none"]

\* The force set_forces computes from the position it reads.
ForceOf(obj, p, t) == p[1] + t + Rank(obj) + 1

\* set_forces(state, t, log): a stage method. It computes a force from the
\* state and stores it in the private field of every object (the tutorial's
\* Assembly.set_tether_forces); it returns None.
SetForces(obj, views, bufs, t, priv) ==
    IF ~DictHas(views, "p")
    THEN [F |-> priv, bufs |-> bufs, ret |-> NoneRet, err |-> "KeyError"]
    ELSE [F |-> [x \in Objs |-> ForceOf(obj, ViewRead(bufs, DictGet(views, "p")), t)],
          bufs |-> bufs, ret |-> NoneRet, err |-> "none"]

\* poke(state, t, log): a method that breaks the component contract and tries
\* state["p"][:] = 9 through the view it was handed.
Poke(obj, views, bufs, t, priv) ==
    IF ~DictHas(views, "p")
    THEN [F |-> priv, bufs |-> bufs, ret |-> NoneRet, err |-> "KeyError"]
    ELSE LET w == ViewWrite(bufs, DictGet(views, "p"), <<9>>)
         IN  [F |-> priv, bufs |-> w.bufs, ret |-> NoneRet, err |-> w.err]

\* method(state, t, log=log) for a bound method [obj, meth].
Call(method, views, bufs, t, priv) ==
    CASE method.meth = "get_derivs" -> GetDerivs(method.obj, views, bufs, t, priv)
      [] method.meth = "set_forces" -> SetForces(method.obj, views, bufs, t, priv)
      [] OTHER -> Poke(method.obj, views, bufs, t, priv)

\* ----------------------------------------------------------------- Package

CompNames == {"c1", "c2"}

\* The name->initial value mappings handed to setup.
InitChoices ==
    { << <<"p", <<0>>>>, <<"v", <<1, 0>>>> >>,
      << <<"p", <<1, 0>>>> >> }

\* The vectors of length n an integrator hands to step.
VecChoices(n) == {[j \in 1..n |-> 0], [j \in 1..n |-> j % 2]}

\* The (t, log) pairs handed to step.
StepArgs == {<<0, "None">>, <<1, "log">>}

Op(op, err) ==
    [op |-> op, err |-> err, vec |-> <<>>, t |-> 0, log |-> "None",
     F0 |-> F, out |-> <<>>, again |-> FALSE, args |-> <<>>, had |-> 0,
     blames |-> ""]

Bufs(sv, rv) == [state_vec |-> sv, ret_vec |-> rv]

\* self._state_vec[:] = vec
CopyIn(sv, vec) == SliceAssign(sv, <<0, Len(sv)>>, vec)

Entry(kind, name, method, views, t, log, acc, returned) ==
    [kind |-> kind, name |-> name, method |-> method, views |-> views,
     seen |-> ViewsRead(acc.bufs, views), t |-> t, log |-> log, F |-> acc.F,
     returned |-> returned]

\* for component_name, method in self._stage_calls: method(state, t, log=log)
RECURSIVE RunStages(_, _, _, _, _)
RunStages(calls, views, t, log, acc) ==
    IF calls = <<>> \/ acc.err # "none" THEN acc
    ELSE LET m == Head(calls)[2]
             r == Call(m, views, acc.bufs, t, acc.F)
         IN  RunStages(Tail(calls), views, t, log,
                 [bufs |-> r.bufs, F |-> r.F, err |-> r.err,
                  trace |-> Append(acc.trace,
                      Entry("stage", Head(calls)[1], m, views, t, log, acc, <<>>))])

\* A scatter that adds to the return buffer instead of assigning it
\* (ret[name][:] += val).
RECURSIVE ScatterAccumulate(_, _, _)
ScatterAccumulate(retViews, bufs, items) ==
    IF items = <<>> THEN [bufs |-> bufs, err |-> "none"]
    ELSE IF ~DictHas(retViews, Head(items)[1])
         THEN [bufs |-> bufs, err |-> "KeyError"]
         ELSE LET v   == DictGet(retViews, Head(items)[1])
                  old == ViewRead(bufs, v)
                  w   == ViewWrite(bufs, v,
                             [j \in DOMAIN Head(items)[2] |-> old[j] + Head(items)[2][j]])
              IN  IF w.err # "none" THEN w
                  ELSE ScatterAccumulate(retViews, w.bufs, Tail(items))

\* A scatter that extends the return buffer with each value (np.append)
\* instead of assigning the value to its range.
RECURSIVE ScatterExtending(_, _, _)
ScatterExtending(retViews, bufs, items) ==
    IF items = <<>> THEN [bufs |-> bufs, err |-> "none"]
    ELSE IF ~DictHas(retViews, Head(items)[1])
         THEN [bufs |-> bufs, err |-> "KeyError"]
         ELSE ScatterExtending(retViews,
                  [bufs EXCEPT ![DictGet(retViews, Head(items)[1]).buf] =
                       @ \o Head(items)[2]],
                  Tail(items))

\* for name, val in <returned dict>.items(): ret[name][:] = val
RECURSIVE Scatter(_, _, _)
Scatter(retViews, bufs, items) ==
    IF items = <<>> THEN [bufs |-> bufs, err |-> "none"]
    ELSE IF ~DictHas(retViews, Head(items)[1])
         THEN [bufs |-> bufs, err |-> "KeyError"]
         ELSE LET w == ViewWrite(bufs, DictGet(retViews, Head(items)[1]), Head(items)[2])
              IN  IF w.err # "none" THEN w
                  ELSE Scatter(retViews, w.bufs, Tail(items))

\* for deriv_method in self._deriv_methods.values(): call it and scatter what
\* it returns; None.items() raises AttributeError.
RECURSIVE RunDerivs(_, _, _, _, _, _)
RunDerivs(methods, views, retViews, t, log, acc) ==
    IF methods = <<>> \/ acc.err # "none" THEN acc
    ELSE LET m == Head(methods)[2]
             r == Call(m, views, acc.bufs, t, acc.F)
             e == Entry("deriv", Head(methods)[1], m, views, t, log, acc, r.ret.items)
             s == IF r.err # "none" THEN [bufs |-> r.bufs, err |-> r.err]
                  ELSE IF ~r.ret.isDict THEN [bufs |-> r.bufs, err |-> "AttributeError"]
                  ELSE Scatter(retViews, r.bufs, r.ret.items)
         IN  RunDerivs(Tail(methods), views, retViews, t, log,
                 [bufs |-> s.bufs, F |-> r.F, err |-> s.err,
                  trace |-> Append(acc.trace, e)])

Reverse(s) == [n \in DOMAIN s |-> s[Len(s) + 1 - n]]

\* A step that runs the derivative methods before the stage calls.
StepBodyDerivsFirst(vec, t, log) ==
    LET a0 == [bufs |-> Bufs(CopyIn(state_vec, vec), ret_vec), F |-> F,
               err |-> "none", trace |-> <<>>]
        a1 == RunDerivs(deriv_methods, state, ret, t, log, a0)
    IN  RunStages(stage_calls, state, t, log, a1)

\* A step that walks the stage pipeline backwards.
StepBodyStagesReversed(vec, t, log) ==
    LET a0 == [bufs |-> Bufs(CopyIn(state_vec, vec), ret_vec), F |-> F,
               err |-> "none", trace |-> <<>>]
        a1 == RunStages(Reverse(stage_calls), state, t, log, a0)
    IN  RunDerivs(deriv_methods, state, ret, t, log, a1)

\* The body of Package.step: copy-in, stage calls, derivative methods.
StepBody(vec, t, log) ==
    LET a0 == [bufs |-> Bufs(CopyIn(state_vec, vec), ret_vec), F |-> F,
               err |-> "none", trace |-> <<>>]
        a1 == RunStages(stage_calls, state, t, log, a0)
    IN  RunDerivs(deriv_methods, state, ret, t, log, a1)

\* The caller keeps no vector.
NotHeld == [kept |-> FALSE, alias |-> FALSE, val |-> <<>>]

\* A step that returns a copy of the return buffer.
ReturnedCopy(rv) == [kept |-> TRUE, alias |-> FALSE, val |-> rv]

\* return self._ret_vec: what the caller gets is the return buffer itself;
\* val is what it showed when the step returned.
ReturnedVec(rv) == [kept |-> TRUE, alias |-> TRUE, val |-> rv]

\* What the caller reads in the vector it keeps while the return buffer
\* holds rv.
HeldRead(h, rv) == IF h.alias THEN rv ELSE h.val

\* self._ret_vec = ret_vec in setup binds the attribute to a new array: a
\* vector kept from an earlier step is the old array, which no later step
\* writes.
Detached(h, rv) == [kept |-> FALSE, alias |-> FALSE, val |-> HeldRead(h, rv)]

PkgInit ==
    /\ components = <<>>
    /\ deriv_methods = <<>>
    /\ stage_calls = <<>>
    /\ ready = FALSE
    /\ slicer = EmptySlicer
    /\ state_vec = <<>>
    /\ ret_vec = <<>>
    /\ state = <<>>
    /\ ret = <<>>
    /\ inits = <<>>
    /\ init_vec = <<>>
    /\ F = [x \in Objs |-> 0]
    /\ trace = <<>>
    /\ result = [op |-> "init", err |-> "none", vec |-> <<>>, t |-> 0,
                 log |-> "None", F0 |-> [x \in Objs |-> 0], out |-> <<>>,
                 again |-> FALSE, args |-> <<>>, had |-> 0, blames |-> ""]
    /\ nRegs = 0
    /\ regOrder = <<>>
    /\ held = NotHeld

\* The record of an add_component call and its arguments.
AddOp(err, component, name, deriv_method_name) ==
    [Op("add_component", err) EXCEPT !.args = <<component, name, deriv_method_name>>]

SeqWithout(s, x) == SelectSeq(s, LAMBDA y : y # x)

\* An add_component that stores the component only once its derivative
\* method is resolved.
ComponentStoredIfResolved(comps, component, name, deriv_method_name) ==
    IF deriv_method_name = "None" \/ HasAttr(component, deriv_method_name)
    THEN DictPut(comps, name, component)
    ELSE comps

\* self._components[name] = component, the first statement of add_component.
ComponentStored(comps, component, name, deriv_method_name) ==
    DictPut(comps, name, component)

\* An add_component that, given no derivative method name, removes the
\* derivative method registered under the name.
DerivMethodDropped(methods, name) == SelectSeq(methods, LAMBDA e : e[1] # name)

\* if deriv_method_name is not None: ... : with None, _deriv_methods is not
\* touched.
DerivMethodKept(methods, name) == methods

\* Package.add_component(component, name, deriv_method_name). The handler of
\* the failed getattr evaluates + + deriv_method_name, a unary plus on a str,
\* so the exception that leaves the call is a TypeError.
add_component(component, name, deriv_method_name) ==
    /\ nRegs < MaxRegs
    /\ nRegs' = nRegs + 1
    /\ components' = ComponentStored(components, component, name, deriv_method_name)
    /\ IF deriv_method_name = "None"
       THEN /\ deriv_methods' = DerivMethodKept(deriv_methods, name)
            /\ UNCHANGED regOrder
            /\ result' = AddOp("none", component, name, deriv_method_name)
       ELSE IF ~HasAttr(component, deriv_method_name)
       THEN /\ UNCHANGED <<deriv_methods, regOrder>>
            /\ result' = AddOp("TypeError", component, name, deriv_method_name)
       ELSE /\ deriv_methods' = DictPut(deriv_methods, name,
                                    [obj |-> component, meth |-> deriv_method_name])
            /\ regOrder' = Append(SeqWithout(regOrder, name), name)
            /\ result' = AddOp("none", component, name, deriv_method_name)
    /\ trace' = <<>>
    /\ UNCHANGED <<stage_calls, ready, slicer, state_vec, ret_vec, state, ret,
                   inits, init_vec, F, held, notPkg>>

\* An add_stage_call that appends the record before it looks the method up.
StageCallAddedBeforeLookup(calls, component_name, method_name) ==
    IF ~DictHas(components, component_name)
    THEN [calls |-> calls, err |-> "KeyError"]
    ELSE [calls |-> Append(calls,
                       <<component_name,
                         [obj |-> DictGet(components, component_name),
                          meth |-> method_name]>>),
          err |-> IF HasAttr(DictGet(components, component_name), method_name)
                  THEN "none" ELSE "AttributeError"]

\* What add_stage_call does to the pipeline, and the exception it raises.
StageCallAdded(calls, component_name, method_name) ==
    IF ~DictHas(components, component_name)
    THEN [calls |-> calls, err |-> "KeyError"]
    ELSE IF ~HasAttr(DictGet(components, component_name), method_name)
    THEN [calls |-> calls, err |-> "AttributeError"]
    ELSE [calls |-> Append(calls,
                       <<component_name,
                         [obj |-> DictGet(components, component_name),
                          meth |-> method_name]>>),
          err |-> "none"]

\* Package.add_stage_call(component_name, method_name)
add_stage_call(component_name, method_name) ==
    /\ nRegs < MaxRegs
    /\ nRegs' = nRegs + 1
    /\ LET r == StageCallAdded(stage_calls, component_name, method_name)
       IN  /\ stage_calls' = r.calls
           /\ result' = [Op("add_stage_call", r.err) EXCEPT
                             !.args = <<component_name, method_name>>]
    /\ trace' = <<>>
    /\ UNCHANGED <<components, deriv_methods, ready, slicer, state_vec, ret_vec,
                   state, ret, inits, init_vec, F, regOrder, held, notPkg>>

\* for component_name, method_name in lst: self.add_stage_call(...), up to
\* the first call that raises.
RECURSIVE StageCallsFrom(_, _)
StageCallsFrom(calls, lst) ==
    IF lst = <<>> THEN [calls |-> calls, err |-> "none"]
    ELSE LET r == StageCallAdded(calls, Head(lst)[1], Head(lst)[2])
         IN  IF r.err # "none" THEN r ELSE StageCallsFrom(r.calls, Tail(lst))

\* A set_stage_calls that puts the old pipeline back when a pair fails.
StageCallsSetAtomic(lst) ==
    LET r == StageCallsFrom(<<>>, lst)
    IN  IF r.err # "none" THEN [calls |-> stage_calls, err |-> r.err] ELSE r

\* A set_stage_calls that does not empty the pipeline first.
StageCallsSetKeeping(lst) == StageCallsFrom(stage_calls, lst)

\* self._stage_calls = [] and then the loop of set_stage_calls.
StageCallsSet(lst) == StageCallsFrom(<<>>, lst)

\* Package.set_stage_calls(lst). When a pair fails the pipeline keeps the
\* pairs added before it.
set_stage_calls(lst) ==
    /\ LET r == StageCallsSet(lst)
       IN  /\ stage_calls' = r.calls
           /\ result' = [Op("set_stage_calls", r.err) EXCEPT
                             !.args = lst, !.had = Len(stage_calls)]
    /\ trace' = <<>>
    /\ UNCHANGED <<components, deriv_methods, ready, slicer, state_vec, ret_vec,
                   state, ret, inits, init_vec, F, nRegs, regOrder, held, notPkg>>

\* State views that are left writable.
StateViewsWritable(s, keys) == SlicerGetState(s, "state_vec", s.i, keys, TRUE)

\* state = slicer.get_state(state_vec, inits.keys(), writeable=False)
StateViews(s, keys) == SlicerGetState(s, "state_vec", s.i, keys, FALSE)

\* Return views built over the state buffer instead of the return buffer.
RetViewsOverState(s, keys) == SlicerGetState(s, "state_vec", s.i, keys, TRUE)

\* ret = slicer.get_state(ret_vec, inits.keys(), writeable=True)
RetViews(s, keys) == SlicerGetState(s, "ret_vec", s.i, keys, TRUE)

\* A setup that adds the names to the Slicer the Package already has.
SlicerExtended(old, new_inits) == SlicerAddDict(old, new_inits)

\* slicer = Slicer(inits): a new Slicer, whatever the Package had.
NewSlicer(old, new_inits) == SlicerAddDict(EmptySlicer, new_inits)

\* Package.setup(inits)
setup(new_inits) ==
    LET s  == NewSlicer(slicer, new_inits)
        sv == SlicerGetStateVec(s, new_inits).vec
    IN  /\ slicer' = s
        /\ state_vec' = sv
        /\ ret_vec' = Zeros(Len(sv))
        /\ state' = StateViews(s, DictKeys(new_inits))
        /\ ret' = RetViews(s, DictKeys(new_inits))
        /\ inits' = new_inits
        /\ init_vec' = sv
        /\ ready' = TRUE
        /\ result' = Op("setup", "none")
        /\ trace' = <<>>
        /\ held' = Detached(held, ret_vec)
        /\ UNCHANGED <<components, deriv_methods, stage_calls, F, nRegs, regOrder,
                       notPkg>>

\* A snapshot that is the state buffer itself, not a copy of it.
SnapshotAliased(snapshot, buffer) == buffer

\* self.init_vec = state_vec.copy(): the snapshot is an array of its own, so
\* it is what it was whatever the state buffer holds after a copy-in.
SnapshotKept(snapshot, buffer) == snapshot

\* The call before this one was a step that returned, made with the same
\* vector, time and log and entered with the same private fields.
SameCall(vec, t, log) ==
    /\ result.op = "step" /\ result.err = "none"
    /\ result.vec = vec /\ result.t = t /\ result.log = log
    /\ result.F0 = F

\* What Package.step(vec, t, log=log) does to the Package and the objects.
\* Before setup the first statement reads an attribute that does not exist
\* yet.
StepEffects(vec, t, log) ==
    /\ IF ~ready
       THEN /\ result' = Op("step", "AttributeError")
            /\ trace' = <<>>
            /\ UNCHANGED <<state_vec, ret_vec, F, init_vec>>
       ELSE LET a == StepBody(vec, t, log)
            IN  /\ state_vec' = a.bufs.state_vec
                /\ init_vec' = SnapshotKept(init_vec, a.bufs.state_vec)
                /\ ret_vec' = a.bufs.ret_vec
                /\ F' = a.F
                /\ trace' = a.trace
                /\ result' = [op |-> "step", err |-> a.err, vec |-> vec, t |-> t,
                              log |-> log, F0 |-> F,
                              out |-> IF a.err = "none" THEN a.bufs.ret_vec ELSE <<>>,
                              again |-> SameCall(vec, t, log), args |-> <<>>,
                              had |-> 0, blames |-> ""]
    /\ UNCHANGED <<components, deriv_methods, stage_calls, ready, slicer, state,
                   ret, inits, nRegs, regOrder, notPkg>>

\* pkg.step(vec, t, log=log), the caller keeping nothing of what it returns.
step(vec, t, log) ==
    /\ StepEffects(vec, t, log)
    /\ UNCHANGED held

\* out = pkg.step(vec, t, log=log): the caller keeps the vector a step that
\* returns hands back; a step that raises binds nothing.
step_kept(vec, t, log) ==
    /\ StepEffects(vec, t, log)
    /\ held' = IF ~ready THEN held
                ELSE LET a == StepBody(vec, t, log)
                     IN  IF a.err = "none" THEN ReturnedVec(a.bufs.ret_vec) ELSE held

\* The (object, name) pairs registered: "c1" is registered with either object.
AddPairs == {<<"o1", "c1">>, <<"o2", "c1">>, <<"o2", "c2">>}

DerivNames == {"None", "get_derivs"}

StageNames == {"set_forces", "poke", "get_derivs"}

PkgNext ==
    \/ \E p \in AddPairs, d \in DerivNames : add_component(p[1], p[2], d)
    \/ \E n \in CompNames, m \in StageNames : add_stage_call(n, m)
    \/ \E i \in InitChoices : setup(i)
    \/ \E v \in VecChoices(Len(state_vec)), a \in StepArgs : step(v, a[1], a[2])

\* The arguments of the registration calls, wrong ones included: a derivative
\* method name that is no attribute, a component name that may not be
\* registered, a stage method name that is no attribute.
RegDerivNames == {"None", "get_derivs", "missing"}

RegStageNames == {"set_forces", "missing"}

\* The lists handed to set_stage_calls.
StageLists ==
    { <<>>,
      << <<"c2", "get_derivs">>, <<"c1", "set_forces">> >>,
      << <<"c1", "get_derivs">>, <<"c1", "missing">> >> }

RegNext ==
    \/ \E p \in AddPairs, d \in RegDerivNames : add_component(p[1], p[2], d)
    \/ \E n \in CompNames, m \in RegStageNames : add_stage_call(n, m)
    \/ \E l \in StageLists : set_stage_calls(l)

\* Derivative method names of which one names a method that returns None.
ReturnDerivNames == {"get_derivs", "set_forces"}

\* A Package whose caller keeps the vectors some of its steps return.
HeldNext ==
    \/ \E o \in Objs : add_component(o, "c1", "get_derivs")
    \/ add_stage_call("c1", "set_forces")
    \/ \E i \in InitChoices : setup(i)
    \/ \E v \in VecChoices(Len(state_vec)) : step(v, 0, "None")
    \/ \E v \in VecChoices(Len(state_vec)) : step_kept(v, 1, "log")

ReturnNext ==
    \/ \E p \in AddPairs, d \in ReturnDerivNames : add_component(p[1], p[2], d)
    \/ \E i \in InitChoices : setup(i)
    \/ \E v \in VecChoices(Len(state_vec)), a \in StepArgs : step(v, a[1], a[2])

\* ------------------------------------------------------------ cached methods

\* The decorated methods of the Partial subclass that has cached methods: two
\* decorated with mono_cached, one with multi_cached.
CachedNames == {"mono", "mono_b", "multi"}

MonoNames == {"mono", "mono_b"}

\* user_function(self, a) of each decorated method: np.array([a])
UserFunction(a) == <<a>>

\* A key that leaves the instance out.
CacheKeyNoInstance(m, inst, a) == IF m \in MonoNames THEN <<>> ELSE <<a>>

\* The key under which wrapper stores a result: hash(args[0]), the instance,
\* in mono_cached; make_key(args, kwds), the instance and the arguments, in
\* multi_cached.
CacheKey(m, inst, a) == IF m \in MonoNames THEN <<inst>> ELSE <<inst, a>>

\* The caches of the decorated methods and, for each method and instance, the
\* result of the first call made with caching on since the method's cache was
\* last emptied (<<>> when there was none).
Caches(store, first) == [store |-> store, first |-> first]

NoCaches ==
    Caches([m \in CachedNames |-> <<>>],
           [m \in CachedNames |-> [inst \in {"pa", "pb"} |-> <<>>]])

\* A wrapper whose methods all store into one cache.
CachedCallSharedCache(m, inst, a, enabled, cch) ==
    LET fresh == UserFunction(a)
        key   == CacheKey(m, inst, a)
        first == IF enabled /\ cch.first[m][inst] = <<>>
                 THEN [cch.first EXCEPT ![m][inst] = fresh] ELSE cch.first
    IN  IF ~enabled
        THEN [out |-> fresh, executed |-> TRUE, cch |-> cch]
        ELSE IF \E n \in CachedNames : DictHas(cch.store[n], key)
        THEN [out |-> DictGet(cch.store[CHOOSE n \in CachedNames :
                                            DictHas(cch.store[n], key)], key),
              executed |-> FALSE, cch |-> Caches(cch.store, first)]
        ELSE [out |-> fresh, executed |-> TRUE,
              cch |-> Caches([cch.store EXCEPT ![m] = DictPut(@, key, fresh)], first)]

\* wrapper(self, a) of decorated method m called on instance inst: what it
\* returns, whether user_function was executed, and the caches after it.
CachedCall(m, inst, a, enabled, cch) ==
    LET fresh == UserFunction(a)
        key   == CacheKey(m, inst, a)
        first == IF enabled /\ cch.first[m][inst] = <<>>
                 THEN [cch.first EXCEPT ![m][inst] = fresh] ELSE cch.first
    IN  IF ~enabled
        THEN [out |-> fresh, executed |-> TRUE, cch |-> cch]
        ELSE IF DictHas(cch.store[m], key)
        THEN [out |-> DictGet(cch.store[m], key), executed |-> FALSE,
              cch |-> Caches(cch.store, first)]
        ELSE [out |-> fresh, executed |-> TRUE,
              cch |-> Caches([cch.store EXCEPT ![m] = DictPut(@, key, fresh)], first)]

\* cache.clear() of method m
CacheCleared(m, cch) ==
    Caches([cch.store EXCEPT ![m] = <<>>],
           [cch.first EXCEPT ![m] = [inst \in {"pa", "pb"} |-> <<>>]])

\* A step that calls none of the cache_clear functions.
CachesClearedNever(fs, cch) == cch

\* for f in self._cache_clear_functions: f()
RECURSIVE CachesCleared(_, _)
CachesCleared(fs, cch) ==
    IF fs = <<>> THEN cch ELSE CachesCleared(Tail(fs), CacheCleared(Head(fs), cch))

\* The record of a direct use of a decorated method; dropped: the methods
\* whose cache_disable has emptied a cache that held a result.
CacheOp(op, m, inst, a, dropped) ==
    [op |-> op, method |-> m, inst |-> inst, arg |-> a, out |-> <<>>,
     executed |-> FALSE, enabled |-> FALSE, dropped |-> dropped]

\* The state after the class with the decorated methods is defined and the
\* Solver is constructed.
CacheInit ==
    /\ cache_enabled = [m \in CachedNames |-> FALSE]
    /\ cache = NoCaches.store
    /\ cache_first = NoCaches.first
    /\ cache_clear_functions = <<>>
    /\ cache_result = CacheOp("init", "None", "None", 0, [m \in CachedNames |-> FALSE])

\* inst.m(a): a call of a decorated method from outside a step.
cached_call(inst, m, a) ==
    LET c == CachedCall(m, inst, a, cache_enabled[m], Caches(cache, cache_first))
    IN  /\ cache' = c.cch.store
        /\ cache_first' = c.cch.first
        /\ cache_result' = [CacheOp("call", m, inst, a, cache_result.dropped) EXCEPT
                               !.out = c.out, !.executed = c.executed,
                               !.enabled = cache_enabled[m]]
        /\ UNCHANGED <<cache_enabled, cache_clear_functions, notCache>>

\* m.cache_enable()
cache_enable(m) ==
    /\ cache_enabled' = [cache_enabled EXCEPT ![m] = TRUE]
    /\ cache_result' = CacheOp("cache_enable", m, "None", 0, cache_result.dropped)
    /\ UNCHANGED <<cache, cache_first, cache_clear_functions, notCache>>

\* A cache_disable that keeps what the cache holds.
DisabledKeeping(m, cch) == cch

\* cache.clear() in cache_disable
Disabled(m, cch) == CacheCleared(m, cch)

\* m.cache_disable()
cache_disable(m) ==
    /\ cache_enabled' = [cache_enabled EXCEPT ![m] = FALSE]
    /\ cache' = Disabled(m, Caches(cache, cache_first)).store
    /\ cache_first' = Disabled(m, Caches(cache, cache_first)).first
    /\ cache_result' = CacheOp("cache_disable", m, "None", 0,
                               [cache_result.dropped EXCEPT ![m] = @ \/ cache[m] # <<>>])
    /\ UNCHANGED <<cache_clear_functions, notCache>>

\* m.cache_clear()
cache_clear(m) ==
    /\ cache' = CacheCleared(m, Caches(cache, cache_first)).store
    /\ cache_first' = CacheCleared(m, Caches(cache, cache_first)).first
    /\ cache_result' = CacheOp("cache_clear", m, "None", 0, cache_result.dropped)
    /\ UNCHANGED <<cache_enabled, cache_clear_functions, notCache>>

\* Partial.__init__() of one more instance of the class with the decorated
\* methods: self.cache_clear() calls the cache_clear of every cached method,
\* and each empties the one cache of its decorated function. The attributes
\* it sets are those of the new object, which no other call is handed.
Partial_init ==
    /\ LET c == CachesCleared(<<"mono", "mono_b", "multi">>, Caches(cache, cache_first))
       IN  cache' = c.store /\ cache_first' = c.first
    /\ cache_result' = CacheOp("Partial_init", "None", "None", 0, cache_result.dropped)
    /\ UNCHANGED <<cache_enabled, cache_clear_functions, notCache>>

\* The arguments handed to the decorated methods.
CacheArgs == {1, 2}

\* The direct calls explored: mono on two instances, the other methods on one.
CacheCalls ==
    {<<inst, "mono", a>> : inst \in {"pa", "pb"}, a \in CacheArgs}
        \cup {<<"pa", m, a>> : m \in {"mono_b", "multi"}, a \in CacheArgs}

CacheNext ==
    \/ \E c \in CacheCalls : cached_call(c[1], c[2], c[3])
    \/ \E m \in CachedNames : cache_enable(m)
    \/ \E m \in CachedNames : cache_disable(m)
    \/ \E m \in CachedNames : cache_clear(m)

\* ------------------------------------------------------- Solver and Partial

\* connect_partial calls explored per behaviour.
MaxPartials == 2

Partials == {"pa", "pb"}

SolverOp(op, err) ==
    [op |-> op, err |-> err, vec |-> <<>>, args |-> <<>>, out |-> <<>>,
     calls |-> <<>>, blames |-> "", cached |-> <<>>, had |-> NoCaches.store,
     stored |-> NoCaches.store]

\* What the step method a Partial subclass defines does when it is called:
\* it returns a dict, returns a mapping that is not a dict (a UserDict),
\* returns None, raises TypeError with a message (it does not take the
\* arguments it is handed), or raises KeyError (it reads a name that is not in
\* the state).
StepKinds == {"dict", "mapping", "none", "TypeError", "KeyError"}

\* The step methods of the Partials with cached methods: each computes the
\* derivative of its own variable through self.mono or through self.multi.
CachedKinds == {"mono", "multi"}

\* Partial._get_cached_methods(): the attributes dir(self) lists that have a
\* cacheable attribute.
CachedMethodsOf(p) ==
    IF step_kind[p] \in CachedKinds THEN <<"mono", "mono_b", "multi">> ELSE <<>>

\* The cached methods of a list of Partials, one list after the other.
RECURSIVE CachedMethodsOfAll(_)
CachedMethodsOfAll(ps) ==
    IF ps = <<>> THEN <<>> ELSE CachedMethodsOf(Head(ps)) \o CachedMethodsOfAll(Tail(ps))

\* The variable a Partial with cached methods owns.
OwnName(p) == IF p = "pa" THEN "x" ELSE "y"

\* The state after the Partials and the Solver are constructed.
SolverInitWith(kinds) ==
    /\ step_kind = kinds
    /\ npsolve_vars = [p \in Partials |-> <<>>]
    /\ pstate = [p \in Partials |-> <<>>]
    /\ pshared = [p \in Partials |-> FALSE]
    /\ partials = <<>>
    /\ solver_ready = FALSE
    /\ npsolve_variables = <<>>
    /\ npsolve_slices = <<>>
    /\ npsolve_state = <<>>
    /\ npsolve_ret = <<>>
    /\ npsolve_initial_values = <<>>
    /\ npsolve_state_dct = <<>>
    /\ npsolve_ret_dct = <<>>
    /\ step_methods = <<>>
    /\ solver_result = SolverOp("init", "none")

\* Partials whose step methods all return dicts.
SolverInit == SolverInitWith([p \in Partials |-> "dict"])

\* dct.update(d)
RECURSIVE DictUpdate(_, _)
DictUpdate(dct, d) ==
    IF d = <<>> THEN dct
    ELSE DictUpdate(DictPut(dct, Head(d)[1], Head(d)[2]), Tail(d))

\* A collection that merges the declarations without looking for a name that
\* is already there.
RECURSIVE FetchVarsNoCheck(_, _)
FetchVarsNoCheck(dicts, dct) ==
    IF dicts = <<>> THEN [dct |-> dct, err |-> "none"]
    ELSE FetchVarsNoCheck(Tail(dicts), DictUpdate(dct, Head(dicts)))

\* The loop of Solver._fetch_vars over the Partials' npsolve_vars: a key that
\* is already collected raises KeyError ('Variable ... is defined by more than
\* one Partial class.').
RECURSIVE FetchVars(_, _)
FetchVars(dicts, dct) ==
    IF dicts = <<>> THEN [dct |-> dct, err |-> "none"]
    ELSE IF \E n \in DOMAIN Head(dicts) : DictHas(dct, Head(dicts)[n][1])
         THEN [dct |-> dct, err |-> "KeyError"]
         ELSE FetchVars(Tail(dicts), DictUpdate(dct, Head(dicts)))

\* The first loop of Solver._setup_vecs: slices[key] = slice(i, i + n).
RECURSIVE SetupSlices(_, _)
SetupSlices(dct, i) ==
    IF dct = <<>> THEN <<>>
    ELSE <<<<Head(dct)[1], <<i, i + Len(Head(dct)[2])>>>>>>
             \o SetupSlices(Tail(dct), i + Len(Head(dct)[2]))

\* The second loop of Solver._setup_vecs: state[slc] = init for every slice.
RECURSIVE SetupState(_, _, _)
SetupState(slices, dct, vec) ==
    IF slices = <<>> THEN vec
    ELSE SetupState(Tail(slices), dct,
                    SliceAssign(vec, Head(slices)[2], DictGet(dct, Head(slices)[1])))

\* Solver._setup_vecs(dct)
SetupVecs(dct) ==
    LET slices == SetupSlices(dct, 0)
        i      == DictTotalLen(dct)
    IN  [slices |-> slices, state |-> SetupState(slices, dct, Zeros(i)),
         ret |-> Zeros(i)]

\* Solver._make_dcts(slices, state, ret)
MakeDcts(slices) ==
    [state_dct |-> [n \in DOMAIN slices |->
                       <<slices[n][1],
                         [buf |-> "npsolve_state", start |-> slices[n][2][1],
                          stop |-> slices[n][2][2], writeable |-> FALSE]>>],
     ret_dct   |-> [n \in DOMAIN slices |->
                       <<slices[n][1],
                         [buf |-> "npsolve_ret", start |-> slices[n][2][1],
                          stop |-> slices[n][2][2], writeable |-> TRUE]>>]]

\* Partial.add_var(name, init, safe). Variables are declared before the
\* Partial is initialised by a Solver, while Partial.state is its own dict.
add_var(p, name, init, safe) ==
    /\ ~pshared[p]
    /\ IF safe /\ DictHas(npsolve_vars[p], name)
       THEN /\ solver_result' = SolverOp("add_var", "KeyError")
            /\ UNCHANGED <<npsolve_vars, pstate>>
       ELSE /\ pstate' = [pstate EXCEPT ![p] = DictPut(@, name, init)]
            /\ npsolve_vars' = [npsolve_vars EXCEPT ![p] = DictPut(@, name, init)]
            /\ solver_result' = SolverOp("add_var", "none")
    /\ UNCHANGED <<pshared, partials, solverBufs, step_kind, notSolver, cacheVars>>

\* Solver.connect_partial(partial)
connect_partial(p) ==
    /\ Len(partials) < MaxPartials
    /\ partials' = Append(partials, p)
    /\ solver_result' = SolverOp("connect_partial", "none")
    /\ UNCHANGED <<npsolve_vars, pstate, pshared, solverBufs, step_kind, notSolver,
                   cacheVars>>

\* partial._set_caching(enable) for every Partial of the list: the switch of
\* each of their cached methods after it.
CachingSet(ps, enable) ==
    [m \in CachedNames |->
        IF m \in Range(CachedMethodsOfAll(ps)) THEN enable ELSE cache_enabled[m]]

\* Solver.npsolve_init()
npsolve_init ==
    LET f == FetchVars([n \in DOMAIN partials |-> npsolve_vars[partials[n]]], <<>>)
        v == SetupVecs(f.dct)
        d == MakeDcts(v.slices)
    IN  IF f.err # "none"
        THEN /\ solver_result' = SolverOp("npsolve_init", f.err)
             /\ UNCHANGED <<npsolve_vars, pstate, pshared, partials, solverBufs,
                            step_kind, notSolver, cacheVars>>
        ELSE /\ npsolve_variables' = f.dct
             /\ npsolve_slices' = v.slices
             /\ npsolve_state' = v.state
             /\ npsolve_initial_values' = v.state
             /\ npsolve_ret' = v.ret
             /\ npsolve_state_dct' = d.state_dct
             /\ npsolve_ret_dct' = d.ret_dct
             /\ pshared' = [p \in Partials |-> pshared[p] \/ p \in Range(partials)]
             /\ step_methods' = partials
             /\ solver_ready' = TRUE
             /\ solver_result' = SolverOp("npsolve_init", "none")
             /\ cache_clear_functions' = CachedMethodsOfAll(partials)
             /\ cache_enabled' = CachingSet(partials, TRUE)
             /\ UNCHANGED <<npsolve_vars, pstate, partials, step_kind, notSolver,
                            cache, cache_first, cache_result>>

\* Solver.npsolve_finish(): cache_disable() of every cached method of every
\* connected Partial.
npsolve_finish ==
    /\ cache_enabled' = CachingSet(partials, FALSE)
    /\ LET c == CachesCleared(CachedMethodsOfAll(partials), Caches(cache, cache_first))
       IN  cache' = c.store /\ cache_first' = c.first
    /\ solver_result' = [SolverOp("npsolve_finish", "none") EXCEPT !.had = cache]
    /\ UNCHANGED <<npsolve_vars, pstate, pshared, partials, solverBufs, step_kind,
                   notSolver, cache_clear_functions, cache_result>>

SolverBufs(sv, rv) == [npsolve_state |-> sv, npsolve_ret |-> rv]

\* What a step method that returns returns: a derivative for each variable
\* its Partial declared, computed from the state views it is handed and from
\* the first extra argument (the time) when there is one.
PartialStep(p, state_dct, bufs, args) ==
    [n \in DOMAIN npsolve_vars[p] |->
        <<npsolve_vars[p][n][1],
          [j \in DOMAIN ViewRead(bufs, DictGet(state_dct, npsolve_vars[p][n][1])) |->
              ViewRead(bufs, DictGet(state_dct, npsolve_vars[p][n][1]))[j] * 2
                  + (IF args = <<>> THEN 0 ELSE args[1])]>>]

\* The step method of a Partial with cached methods:
\* return {own: self.mono(state_dct[own][0])}, or the same through self.multi;
\* state_dct[own] raises KeyError when the variable was never declared.
CachedStep(p, state_dct, bufs, cch) ==
    IF ~DictHas(state_dct, OwnName(p))
    THEN [raised |-> "KeyError", isDict |-> FALSE, hasItems |-> FALSE,
          items |-> <<>>, cch |-> cch, cached |-> <<>>]
    ELSE LET a == ViewRead(bufs, DictGet(state_dct, OwnName(p)))[1]
             m == step_kind[p]
             c == CachedCall(m, p, a, cache_enabled[m], cch)
         IN  [raised |-> "none", isDict |-> TRUE, hasItems |-> TRUE,
              items |-> <<<<OwnName(p), c.out>>>>, cch |-> c.cch,
              cached |-> <<[method |-> m, inst |-> p, arg |-> a, out |-> c.out,
                            executed |-> c.executed]>>]

\* step(state_dct, *args) for the step method of Partial p: the exception it
\* raises, or what it returns (isDict: isinstance(ret, dict); hasItems: ret
\* has an items method).
CallStep(p, state_dct, bufs, args, cch) ==
    CASE step_kind[p] = "dict" ->
           [raised |-> "none", isDict |-> TRUE, hasItems |-> TRUE,
            items |-> PartialStep(p, state_dct, bufs, args),
            cch |-> cch, cached |-> <<>>]
      [] step_kind[p] = "mapping" ->
           [raised |-> "none", isDict |-> FALSE, hasItems |-> TRUE,
            items |-> PartialStep(p, state_dct, bufs, args),
            cch |-> cch, cached |-> <<>>]
      [] step_kind[p] = "none" ->
           [raised |-> "none", isDict |-> FALSE, hasItems |-> FALSE, items |-> <<>>,
            cch |-> cch, cached |-> <<>>]
      [] step_kind[p] \in CachedKinds ->
           CachedStep(p, state_dct, bufs, cch)
      [] OTHER ->
           [raised |-> step_kind[p], isDict |-> FALSE, hasItems |-> FALSE,
            items |-> <<>>, cch |-> cch, cached |-> <<>>]

\* The loop of Solver.step: for step in self._step_methods, scatter the items
\* of what step(state_dct, *args) returns. An exception of the method leaves
\* as it is; a return value without items raises AttributeError.
RECURSIVE RunSteps(_, _, _)
RunSteps(methods, args, acc) ==
    IF methods = <<>> \/ acc.err # "none" THEN acc
    ELSE LET r == CallStep(Head(methods), npsolve_state_dct, acc.bufs, args, acc.cch)
             s == IF r.raised # "none" THEN [bufs |-> acc.bufs, err |-> r.raised]
                  ELSE IF ~r.hasItems
                  THEN [bufs |-> acc.bufs, err |-> "AttributeError"]
                  ELSE Scatter(npsolve_ret_dct, acc.bufs, r.items)
         IN  RunSteps(Tail(methods), args,
                 [bufs |-> s.bufs, err |-> s.err, blames |-> "",
                  calls |-> Append(acc.calls, <<Head(methods), args>>),
                  cch |-> r.cch, cached |-> acc.cached \o r.cached])

\* The loop of Solver.tstep: a TypeError of the method is raised again as a
\* TypeError whose message starts with "Error from <method>", any other
\* exception leaves as it is, and a return value that is not a dict raises a
\* ValueError whose message names the method.
RECURSIVE RunTSteps(_, _, _)
RunTSteps(methods, args, acc) ==
    IF methods = <<>> \/ acc.err # "none" THEN acc
    ELSE LET r == CallStep(Head(methods), npsolve_state_dct, acc.bufs, args, acc.cch)
             s == IF r.raised = "TypeError"
                  THEN [bufs |-> acc.bufs, err |-> "TypeError",
                        blames |-> Head(methods)]
                  ELSE IF r.raised # "none"
                  THEN [bufs |-> acc.bufs, err |-> r.raised, blames |-> ""]
                  ELSE IF ~r.isDict
                  THEN [bufs |-> acc.bufs, err |-> "ValueError",
                        blames |-> Head(methods)]
                  ELSE [bufs |-> Scatter(npsolve_ret_dct, acc.bufs, r.items).bufs,
                        err |-> Scatter(npsolve_ret_dct, acc.bufs, r.items).err,
                        blames |-> ""]
         IN  RunTSteps(Tail(methods), args,
                 [bufs |-> s.bufs, err |-> s.err, blames |-> s.blames,
                  calls |-> Append(acc.calls, <<Head(methods), args>>),
                  cch |-> r.cch, cached |-> acc.cached \o r.cached])

\* A copy-in that binds npsolve_state to the vector it is handed and leaves the
\* array the views share as it was.
SolverCopyInRebinding(vec) ==
    [bufs |-> SolverBufs(npsolve_state, npsolve_ret),
     err |-> "none", blames |-> "", calls |-> <<>>,
     cch |-> CachesCleared(cache_clear_functions, Caches(cache, cache_first)),
     cached |-> <<>>]

\* self.npsolve_state[:] = vec and the calls of the cache_clear functions,
\* with the buffers, the caches and an empty record of calls.
SolverCopyIn(vec) ==
    [bufs |-> SolverBufs(SliceAssign(npsolve_state, <<0, Len(npsolve_state)>>, vec),
                         npsolve_ret),
     err |-> "none", blames |-> "", calls |-> <<>>,
     cch |-> CachesCleared(cache_clear_functions, Caches(cache, cache_first)),
     cached |-> <<>>]

\* The body of Solver.step(vec, *args).
SolverStepBody(vec, args) == RunSteps(step_methods, args, SolverCopyIn(vec))

\* The body of Solver.tstep(t, vec, *args): the methods get (state_dct, t, *args).
SolverTStepBody(t, vec, args) ==
    RunTSteps(step_methods, <<t>> \o args, SolverCopyIn(vec))

\* The loop of Solver.one_way_step: what the step methods return is dropped.
RECURSIVE RunOneWay(_, _, _)
RunOneWay(methods, args, acc) ==
    IF methods = <<>> \/ acc.err # "none" THEN acc
    ELSE LET r == CallStep(Head(methods), npsolve_state_dct, acc.bufs, args, acc.cch)
         IN  RunOneWay(Tail(methods), args,
                 [bufs |-> acc.bufs, err |-> r.raised, blames |-> "",
                  calls |-> Append(acc.calls, <<Head(methods), args>>),
                  cch |-> r.cch, cached |-> acc.cached \o r.cached])

\* The body of Solver.one_way_step(vec, *args).
SolverOneWayBody(vec, args) == RunOneWay(step_methods, args, SolverCopyIn(vec))

\* The record of a step or tstep call and its outcome; cached: the calls of
\* cached methods the step methods made; had, stored: what the caches held
\* before and after the call.
SteppedOp(op, vec, args, a) ==
    [op |-> op, err |-> a.err, vec |-> vec, args |-> args,
     out |-> IF a.err = "none" THEN a.bufs.npsolve_ret ELSE <<>>,
     calls |-> a.calls, blames |-> a.blames, cached |-> a.cached, had |-> cache,
     stored |-> a.cch.store]

\* Solver.step(vec, *args). Before npsolve_init the first statement reads an
\* attribute that does not exist yet.
Solver_step(vec, args) ==
    /\ IF ~solver_ready
       THEN /\ solver_result' = SolverOp("step", "AttributeError")
            /\ UNCHANGED <<npsolve_state, npsolve_ret, cache, cache_first>>
       ELSE LET a == SolverStepBody(vec, args)
            IN  /\ npsolve_state' = a.bufs.npsolve_state
                /\ npsolve_ret' = a.bufs.npsolve_ret
                /\ cache' = a.cch.store
                /\ cache_first' = a.cch.first
                /\ solver_result' = SteppedOp("step", vec, args, a)
    /\ UNCHANGED <<npsolve_vars, pstate, pshared, partials, solver_ready,
                   npsolve_variables, npsolve_slices, npsolve_initial_values,
                   npsolve_state_dct, npsolve_ret_dct, step_methods, step_kind,
                   notSolver, cache_enabled, cache_clear_functions, cache_result>>

\* Solver.tstep(t, vec, *args)
Solver_tstep(t, vec, args) ==
    /\ IF ~solver_ready
       THEN /\ solver_result' = SolverOp("tstep", "AttributeError")
            /\ UNCHANGED <<npsolve_state, npsolve_ret, cache, cache_first>>
       ELSE LET a == SolverTStepBody(t, vec, args)
            IN  /\ npsolve_state' = a.bufs.npsolve_state
                /\ npsolve_ret' = a.bufs.npsolve_ret
                /\ cache' = a.cch.store
                /\ cache_first' = a.cch.first
                /\ solver_result' = SteppedOp("tstep", vec, <<t>> \o args, a)
    /\ UNCHANGED <<npsolve_vars, pstate, pshared, partials, solver_ready,
                   npsolve_variables, npsolve_slices, npsolve_initial_values,
                   npsolve_state_dct, npsolve_ret_dct, step_methods, step_kind,
                   notSolver, cache_enabled, cache_clear_functions, cache_result>>

\* Solver.one_way_step(vec, *args)
Solver_one_way_step(vec, args) ==
    /\ IF ~solver_ready
       THEN /\ solver_result' = SolverOp("one_way_step", "AttributeError")
            /\ UNCHANGED <<npsolve_state, cache, cache_first>>
       ELSE LET a == SolverOneWayBody(vec, args)
            IN  /\ npsolve_state' = a.bufs.npsolve_state
                /\ cache' = a.cch.store
                /\ cache_first' = a.cch.first
                /\ solver_result' = [SteppedOp("one_way_step", vec, args, a)
                                         EXCEPT !.out = <<>>]
    /\ UNCHANGED <<npsolve_vars, pstate, pshared, partials, solver_ready,
                   npsolve_variables, npsolve_slices, npsolve_ret,
                   npsolve_initial_values, npsolve_state_dct, npsolve_ret_dct,
                   step_methods, step_kind, notSolver, cache_enabled,
                   cache_clear_functions, cache_result>>

\* The (name, init) pairs handed to add_var.
AddVarArgs == {<<"x", <<1>>>>, <<"y", <<2, 3>>>>}

SolverNext ==
    \/ \E p \in Partials, a \in AddVarArgs, safe \in BOOLEAN :
           add_var(p, a[1], a[2], safe)
    \/ \E p \in Partials : connect_partial(p)
    \/ npsolve_init
    \/ \E v \in VecChoices(Len(npsolve_state)) : Solver_step(v, <<>>)

\* The variable each Partial declares when its step method is what is studied.
OwnVar == {<<"pa", "x", <<1>>>>, <<"pb", "y", <<2, 3>>>>}

\* The times handed to step and tstep.
Times == {0, 1}

TStepNext ==
    \/ \E o \in OwnVar : add_var(o[1], o[2], o[3], TRUE)
    \/ \E p \in Partials : connect_partial(p)
    \/ npsolve_init
    \/ \E v \in VecChoices(Len(npsolve_state)), t \in Times : Solver_step(v, <<t>>)
    \/ \E v \in VecChoices(Len(npsolve_state)), t \in Times : Solver_tstep(t, v, <<>>)

\* ---------------------------------------------------------------- Integrator

\* The greatest end handed to Integrator.run, in halves of the unit of x.
MaxEnd == 6

\* The most evaluations the underlying integrator makes of its own, inside
\* the integrate() calls of one run.
MaxSub == 2

\* The values of x (Python floats, taken as exact): a fraction <<num, den>>.
RECURSIVE GCD(_, _)
GCD(a, b) == IF b = 0 THEN a ELSE GCD(b, a % b)

Frac(n, d) ==
    LET g == GCD(IF n < 0 THEN -n ELSE n, d)
    IN  IF n = 0 THEN <<0, 1>> ELSE <<n \div g, d \div g>>

FAdd(a, b) == Frac(a[1] * b[2] + b[1] * a[2], a[2] * b[2])

FSub(a, b) == Frac(a[1] * b[2] - b[1] * a[2], a[2] * b[2])

FMul(a, b) == Frac(a[1] * b[1], a[2] * b[2])

FLess(a, b) == a[1] * b[2] < b[1] * a[2]

\* a % b for a >= 0 and b > 0
FMod(a, b) == FSub(a, FMul(<<(a[1] * b[2]) \div (a[2] * b[1]), 1>>, b))

\* int(a) for a >= 0
FInt(a) == a[1] \div a[2]

\* np.linspace(start, stop, n): n samples, the first at start and, when there
\* is more than one, the last at stop.
Linspace(start, stop, n) ==
    [k \in 1..n |->
        IF n = 1 THEN start
        ELSE FAdd(start, FMul(FSub(stop, start), <<k - 1, n - 1>>))]

\* Integrator._make_x_vector(end)
MakeXVector(end, rate) ==
    LET rem   == FMod(end, <<1, rate>>)
        x_end == FSub(end, rem)
        n     == FInt(FMul(x_end, <<rate, 1>>))
    IN  Linspace(<<0, 1>>, x_end, n)

\* The record of a run that is under way or of how the last one ended.
RunOp(op, err) ==
    [op |-> op, err |-> err, frames |-> 0, times |-> <<>>, aux |-> <<>>,
     early |-> FALSE, had |-> [stop |-> FALSE, stale |-> FALSE]]

\* The locals of Integrator.run.
RunLocals(end, x_vec) ==
    [end |-> end, x_vec |-> x_vec, x_end |-> <<0, 1>>, dt |-> <<0, 1>>,
     t |-> <<0, 1>>, solution |-> <<>>, successful |-> TRUE, sub |-> 0]

\* The state after the Integrator and its status and logger are constructed.
IntegratorInitWith(rate) ==
    /\ framerate = rate
    /\ status = [final |-> FALSE, stop |-> FALSE]
    /\ logger = [time |-> <<>>, aux |-> <<>>]
    /\ i_pc = "idle"
    /\ i_run = RunLocals(<<0, 1>>, <<>>)
    /\ i_trace = <<>>
    /\ i_result = RunOp("init", "none")

\* An Integrator of the default frame rate.
IntegratorInit == IntegratorInitWith(60)

\* What one call of a component's step method does to the status and the
\* logger: it appends to its logged series when status[FINAL] is set, and it
\* sets status[STOP] when its stop condition holds (setStop).
Evaluated(st, lg, x, setStop) ==
    [status |-> [st EXCEPT !.stop = @ \/ setStop],
     logger |-> IF st.final THEN [lg EXCEPT !.aux = Append(@, x)] ELSE lg]

\* The trace of a run: the calls of integrate() ("integrate"), the
\* evaluations of the step methods by the tstep of a frame ("frame"), by the
\* underlying integrator ("internal") and by the step after the loop ("last"),
\* each with the frame being produced, status[FINAL] during the call, whether
\* the call set status[STOP], and status[STOP] after it.
Event(ev, frame, final, sets, stop) ==
    [ev |-> ev, frame |-> frame, final |-> final, sets |-> sets, stop |-> stop]

\* logger.clear(); status[STOP] = False at the start of _log_initial_step,
\* with the flag left as it is.
LogInitialResetKeepingStop(st, lg) ==
    [status |-> st, logger |-> [time |-> <<>>, aux |-> <<>>]]

\* logger.clear(); status[STOP] = False at the start of _log_initial_step.
LogInitialReset(st, lg) ==
    [status |-> [st EXCEPT !.stop = FALSE],
     logger |-> [time |-> <<>>, aux |-> <<>>]]

\* A value that is logged outside a run.
Stale == <<-1, 1>>

\* Integrator.run(end) up to the call of tstep in _log_initial_step.
run(end) ==
    /\ i_pc = "idle"
    /\ LET r == LogInitialReset(status, logger)
       IN  /\ status' = [r.status EXCEPT !.final = TRUE]
           /\ logger' = r.logger
    /\ i_run' = RunLocals(end, MakeXVector(end, framerate))
    /\ i_trace' = <<>>
    /\ i_result' = [RunOp("running", "none") EXCEPT
                        !.had = [stop |-> status.stop,
                                 stale |-> Stale \in Range(logger.aux)]]
    /\ i_pc' = "initial"
    /\ UNCHANGED <<framerate, notIntegrator>>

\* status[FINAL] after the evaluation of a frame, left set.
FinalLeftSet(st) == st

\* status[FINAL] = False after the evaluation of a frame.
FinalCleared(st) == [st EXCEPT !.final = FALSE]

\* self.tstep(0, initial values) in _log_initial_step, the rest of
\* _log_initial_step, and run up to its loop: x_vec[-1] and x_vec[1] raise
\* IndexError on a grid of fewer than two samples.
tstep_initial(setStop) ==
    /\ i_pc = "initial"
    /\ LET e == Evaluated(status, logger, <<0, 1>>, setStop)
           x == i_run.x_vec
       IN  /\ status' = FinalCleared(e.status)
           /\ logger' = [e.logger EXCEPT !.time = Append(@, <<0, 1>>)]
           /\ i_trace' = Append(i_trace, Event("frame", 0, status.final, setStop, e.status.stop))
           /\ IF Len(x) < 2
              THEN /\ i_pc' = "idle"
                   /\ i_result' = [RunOp("run", "IndexError") EXCEPT !.had = i_result.had]
                   /\ i_run' = [i_run EXCEPT !.solution = <<<<0, 1>>>>]
              ELSE /\ i_pc' = "loop"
                   /\ i_run' = [i_run EXCEPT !.solution = <<<<0, 1>>>>,
                                             !.x_end = x[Len(x)],
                                             !.dt = FSub(x[2], x[1]),
                                             !.t = <<0, 1>>]
                   /\ UNCHANGED i_result
    /\ UNCHANGED <<framerate, notIntegrator>>

\* A loop test that does not look at the stop flag.
LoopContinuesIgnoringStop(successful, t, end, stop) ==
    successful /\ FLess(t, end)

\* while i.successful() and t < end and not status[STOP]
LoopContinues(successful, t, end, stop) ==
    successful /\ FLess(t, end) /\ ~stop

\* A loop that leaves t as it is.
TimeNotAdvanced(t, dt) == t

\* t = t + dt
TimeAdvanced(t, dt) == FAdd(t, dt)

\* The loop test of run, and t = t + dt and the call of i.integrate(t) when
\* the loop goes on.
loop_test ==
    /\ i_pc = "loop"
    /\ IF LoopContinues(i_run.successful, i_run.t, i_run.end, status.stop)
       THEN /\ i_run' = [i_run EXCEPT !.t = TimeAdvanced(@, i_run.dt)]
            /\ i_trace' = Append(i_trace,
                   Event("integrate", Len(i_run.solution), status.final, FALSE, status.stop))
            /\ i_pc' = "integrate"
       ELSE /\ i_pc' = "last"
            /\ UNCHANGED <<i_run, i_trace>>
    /\ UNCHANGED <<framerate, status, logger, i_result, notIntegrator>>

\* One evaluation of tstep that the underlying integrator makes inside
\* integrate(t).
integrate_eval(setStop) ==
    /\ i_pc = "integrate"
    /\ i_run.sub < MaxSub
    /\ LET e == Evaluated(status, logger, i_run.t, setStop)
       IN  /\ status' = e.status
           /\ logger' = e.logger
           /\ i_trace' = Append(i_trace,
                  Event("internal", Len(i_run.solution), status.final, setStop, e.status.stop))
    /\ i_run' = [i_run EXCEPT !.sub = @ + 1]
    /\ UNCHANGED <<framerate, i_pc, i_result, notIntegrator>>

\* A frame whose time is not logged.
FrameNotLogged(lg, t) == lg

\* logger[x_name].append(t)
FrameLogged(lg, t) == [lg EXCEPT !.time = Append(@, t)]

\* integrate(t) returns (ok: what i.successful() answers from now on), and run
\* goes on to its call of tstep: solution.append(vec);
\* logger[x_name].append(t); status[FINAL] = True.
integrate_return(ok) ==
    /\ i_pc = "integrate"
    /\ i_run' = [i_run EXCEPT !.solution = Append(@, i_run.t), !.successful = ok]
    /\ logger' = FrameLogged(logger, i_run.t)
    /\ status' = [status EXCEPT !.final = TRUE]
    /\ i_pc' = "final"
    /\ UNCHANGED <<framerate, i_trace, i_result, notIntegrator>>

\* self.tstep(t, vec) at the end of a frame; status[FINAL] = False.
tstep_final(setStop) ==
    /\ i_pc = "final"
    /\ LET e == Evaluated(status, logger, i_run.t, setStop)
       IN  /\ status' = FinalCleared(e.status)
           /\ logger' = e.logger
           /\ i_trace' = Append(i_trace,
                  Event("frame", Len(i_run.solution) - 1, status.final, setStop, e.status.stop))
    /\ i_pc' = "loop"
    /\ UNCHANGED <<framerate, i_run, i_result, notIntegrator>>

\* The rest of run after its loop: self.step(solution[-1], x_end), the
\* assembly of the returned dict from the solution and the logger,
\* status[STOP] = False and npsolve_finish().
run_return(setStop) ==
    /\ i_pc = "last"
    /\ LET e == Evaluated(status, logger, i_run.x_end, setStop)
       IN  /\ status' = [e.status EXCEPT !.stop = FALSE]
           /\ logger' = e.logger
           /\ i_trace' = Append(i_trace,
                  Event("last", Len(i_run.solution) - 1, status.final, setStop, e.status.stop))
           /\ i_result' = [op |-> "run", err |-> "none",
                           frames |-> Len(i_run.solution),
                           times |-> e.logger.time, aux |-> e.logger.aux,
                           early |-> status.stop, had |-> i_result.had]
    /\ i_pc' = "idle"
    /\ UNCHANGED <<framerate, i_run, notIntegrator>>

\* Between two runs the caller sets status[STOP].
set_stop ==
    /\ i_pc = "idle"
    /\ ~status.stop
    /\ status' = [status EXCEPT !.stop = TRUE]
    /\ UNCHANGED <<framerate, logger, i_pc, i_run, i_trace, i_result, notIntegrator>>

\* Between two runs the caller appends to the series of the logger.
log_stale ==
    /\ i_pc = "idle"
    /\ Stale \notin Range(logger.aux)
    /\ logger' = [logger EXCEPT !.aux = Append(@, Stale), !.time = Append(@, Stale)]
    /\ UNCHANGED <<framerate, status, i_pc, i_run, i_trace, i_result, notIntegrator>>

\* The frame rates of the Integrators explored.
Framerates == {1, 2, 3}

\* The ends handed to run.
Ends == {Frac(k, 2) : k \in 1..MaxEnd}

IntegratorNext ==
    \/ \E end \in Ends : run(end)
    \/ \E s \in BOOLEAN : tstep_initial(s)
    \/ loop_test
    \/ \E s \in BOOLEAN : integrate_eval(s)
    \/ \E ok \in BOOLEAN : integrate_return(ok)
    \/ \E s \in BOOLEAN : tstep_final(s)
    \/ \E s \in BOOLEAN : run_return(s)
    \/ set_stop
    \/ log_stale

\* The steps of runs made one after the other, nothing done between them.
RunNext ==
    \/ \E end \in Ends : run(end)
    \/ \E s \in BOOLEAN : tstep_initial(s)
    \/ loop_test
    \/ \E s \in BOOLEAN : integrate_eval(s)
    \/ \E ok \in BOOLEAN : integrate_return(ok)
    \/ \E s \in BOOLEAN : tstep_final(s)
    \/ \E s \in BOOLEAN : run_return(s)

\* A call of run that is under way goes on: each statement of run is executed
\* once the one before it is, and every call of integrate() returns.
RunFairness ==
    /\ WF_vars(\E s \in BOOLEAN : tstep_initial(s))
    /\ WF_vars(loop_test)
    /\ WF_vars(\E ok \in BOOLEAN : integrate_return(ok))
    /\ WF_vars(\E s \in BOOLEAN : tstep_final(s))
    /\ WF_vars(\E s \in BOOLEAN : run_return(s))

\* --------------------------------------------------------------------- V_Set

\* The sizes argument of V_Set.add: None, an int, or a list of ints.
NoSizes == [kind |-> "None", val |-> <<>>]

IntSize(k) == [kind |-> "int", val |-> <<k>>]

ListSizes(l) == [kind |-> "list", val |-> l]

\* The sizes add zips with the names: [sizes] for an int and a single name,
\* [1] * len(names) for None, and otherwise sizes itself.
VSetSizes(names, sizes) ==
    IF Len(names) = 1 /\ sizes.kind = "int" THEN sizes.val
    ELSE IF sizes.kind = "None" THEN [j \in DOMAIN names |-> 1]
    ELSE sizes.val

\* A loop in which a name that is already there still advances n.
RECURSIVE VSetAddAllAdvancing(_, _, _, _)
VSetAddAllAdvancing(names, sizes, dct, n) ==
    IF names = <<>> \/ sizes = <<>> THEN [dct |-> dct, n |-> n]
    ELSE IF DictHas(dct, Head(names))
    THEN VSetAddAllAdvancing(Tail(names), Tail(sizes), dct, n + Head(sizes))
    ELSE VSetAddAllAdvancing(Tail(names), Tail(sizes),
             DictPut(dct, Head(names),
                 IF Head(sizes) = 1
                 THEN [kind |-> "int", start |-> n, stop |-> n + 1]
                 ELSE [kind |-> "slice", start |-> n, stop |-> n + Head(sizes)]),
             n + Head(sizes))

\* The loop of V_Set.add over zip(names, sizes): a new name gets the integer
\* index n when its size is 1 and otherwise the slice n .. n + size, and n
\* advances by the size; a name that is already there is passed over.
RECURSIVE VSetAddAll(_, _, _, _)
VSetAddAll(names, sizes, dct, n) ==
    IF names = <<>> \/ sizes = <<>> THEN [dct |-> dct, n |-> n]
    ELSE IF DictHas(dct, Head(names))
    THEN VSetAddAll(Tail(names), Tail(sizes), dct, n)
    ELSE VSetAddAll(Tail(names), Tail(sizes),
             DictPut(dct, Head(names),
                 IF Head(sizes) = 1
                 THEN [kind |-> "int", start |-> n, stop |-> n + 1]
                 ELSE [kind |-> "slice", start |-> n, stop |-> n + Head(sizes)]),
             n + Head(sizes))

\* An add that never finds the set locked.
AddRejectedNever(locked) == FALSE

\* if self._locked: raise RuntimeError
AddRejected(locked) == locked

\* What V_Set.add(names, sizes) does to a set: an int for the sizes of several
\* names is not iterable and zip raises TypeError before anything is stored.
VSetAdded(names, sizes, dct, n, locked) ==
    IF AddRejected(locked) THEN [dct |-> dct, n |-> n, err |-> "RuntimeError"]
    ELSE IF sizes.kind = "int" /\ Len(names) # 1
    THEN [dct |-> dct, n |-> n, err |-> "TypeError"]
    ELSE [dct |-> VSetAddAll(names, VSetSizes(names, sizes), dct, n).dct,
          n |-> VSetAddAll(names, VSetSizes(names, sizes), dct, n).n,
          err |-> "none"]

VSetOp(op, err, locked) == [op |-> op, err |-> err, locked |-> locked]

\* V_Set(names): an empty, unlocked set for names=None, and otherwise the set
\* with the names added (sizes=None) and locked.
VSetInitWith(names) ==
    /\ vs_dct = IF names = <<>> THEN <<>>
                ELSE VSetAdded(names, NoSizes, <<>>, 0, FALSE).dct
    /\ vs_n = IF names = <<>> THEN 0 ELSE VSetAdded(names, NoSizes, <<>>, 0, FALSE).n
    /\ vs_locked = (names # <<>>)
    /\ vs_result = VSetOp("init", "none", FALSE)

\* V_Set()
VSetInit == VSetInitWith(<<>>)

\* V_Set.add(names, sizes), names being a list of names.
V_Set_add(names, sizes) ==
    LET a == VSetAdded(names, sizes, vs_dct, vs_n, vs_locked)
    IN  /\ vs_dct' = a.dct
        /\ vs_n' = a.n
        /\ vs_result' = VSetOp("add", a.err, vs_locked)
        /\ UNCHANGED <<vs_locked, notVSet>>

\* V_Set.lock()
V_Set_lock ==
    /\ vs_locked' = TRUE
    /\ vs_result' = VSetOp("lock", "none", vs_locked)
    /\ UNCHANGED <<vs_dct, vs_n, notVSet>>

\* The lists of names handed to add.
VSetNameLists == {<<"a">>, <<"b">>, <<"a", "b">>, <<"b", "c">>}

\* The sizes handed to add.
VSetSizeChoices == {NoSizes, IntSize(3), ListSizes(<<2, 1>>)}

VSetNext ==
    \/ \E names \in VSetNameLists, sizes \in VSetSizeChoices : V_Set_add(names, sizes)
    \/ V_Set_lock

\* The calls made on a Solver whose Partials have cached methods, with direct
\* calls of the cached methods between the steps.
CachedStepNext ==
    \/ \E o \in OwnVar : add_var(o[1], o[2], o[3], TRUE)
    \/ \E p \in Partials : connect_partial(p)
    \/ npsolve_init
    \/ npsolve_finish
    \/ \E v \in VecChoices(Len(npsolve_state)) : Solver_step(v, <<>>)
    \/ \E v \in VecChoices(Len(npsolve_state)) : Solver_tstep(0, v, <<>>)
    \/ \E v \in VecChoices(Len(npsolve_state)) : Solver_one_way_step(v, <<>>)
    \/ \E m \in {"mono", "mono_b"} : cached_call("pa", m, 2)

\* The direct calls made around a Solver that only "pb" is connected to.
SharedCalls ==
    {<<"pa", "mono", 1>>, <<"pb", "mono", 2>>, <<"pa", "multi", 1>>,
     <<"pb", "multi", 1>>}

\* Two instances of the class with the decorated methods, one of them
\* connected to the Solver, and the calls made through either.
SharedNext ==
    \/ connect_partial("pb")
    \/ npsolve_init
    \/ npsolve_finish
    \/ Partial_init
    \/ \E c \in SharedCalls : cached_call(c[1], c[2], c[3])
    \/ cache_enable("mono")
    \/ cache_disable("mono")
    \/ cache_clear("mono")

\* ------------------------------------------------------------ specifications

Init == PkgInit /\ SlicerInit /\ SolverInit /\ IntegratorInit /\ CacheInit /\ VSetInit

\* Partials of every kind of step method.
TStepInit ==
    /\ PkgInit /\ SlicerInit /\ IntegratorInit /\ CacheInit /\ VSetInit
    /\ \E kinds \in [Partials -> StepKinds] : SolverInitWith(kinds)

\* Partials with cached methods: the step method of one uses self.mono, the
\* step method of the other self.multi.
CachedStepInit ==
    /\ PkgInit /\ SlicerInit /\ IntegratorInit /\ CacheInit /\ VSetInit
    /\ SolverInitWith([p \in Partials |-> IF p = "pa" THEN "mono" ELSE "multi"])

\* V_Set() and V_Set(['a', 'b'])
VSetSpecInit ==
    /\ PkgInit /\ SlicerInit /\ SolverInit /\ IntegratorInit /\ CacheInit
    /\ \E names \in {<<>>, <<"a", "b">>} : VSetInitWith(names)

\* Integrators of every frame rate explored.
IntegratorSpecInit ==
    /\ PkgInit /\ SlicerInit /\ SolverInit /\ CacheInit /\ VSetInit
    /\ \E rate \in Framerates : IntegratorInitWith(rate)

\* The Package and its components.
Spec == Init /\ [][PkgNext]_vars

\* The Package's registration calls, with arguments that make them fail.
SpecReg == Init /\ [][RegNext]_vars

\* A Package whose derivative methods may return None.
SpecReturn == Init /\ [][ReturnNext]_vars

\* A Package whose caller keeps vectors that steps returned.
SpecHeld == Init /\ [][HeldNext]_vars

\* A Slicer used on its own.
SpecSlicer == Init /\ [][SlicerNext]_vars

\* The legacy Solver and its Partials.
SpecSolver == Init /\ [][SolverNext]_vars

\* step and tstep of the legacy Solver over step methods of every kind.
SpecTStep == TStepInit /\ [][TStepNext]_vars

\* The decorated methods used directly.
SpecCache == Init /\ [][CacheNext]_vars

\* The Solver stepping Partials with cached methods.
SpecCachedStep == CachedStepInit /\ [][CachedStepNext]_vars

\* The decorated methods of two instances, one connected to the Solver.
SpecShared == CachedStepInit /\ [][SharedNext]_vars

\* A V_Set.
SpecVSet == VSetSpecInit /\ [][VSetNext]_vars

\* Integrator.run, the evaluations made during it, and what its caller does
\* to the status and the logger between runs.
SpecIntegrator == IntegratorSpecInit /\ [][IntegratorNext]_vars

\* Runs of Integrator.run that go on once started.
SpecRunFair == IntegratorSpecInit /\ [][RunNext]_vars /\ RunFairness

\* ------------------------------------------------------ claims about Package

\* The last operation was a step that got past its first statement.
Stepped == result.op = "step" /\ result.err # "AttributeError"

StageEntries == SelectSeq(trace, LAMBDA e : e.kind = "stage")

DerivEntries == SelectSeq(trace, LAMBDA e : e.kind = "deriv")

\* What the state views show when the state buffer holds vec.
SeenFor(vec) == ViewsRead(Bufs(vec, ret_vec), state)

ForceEntries == SelectSeq(StageEntries, LAMBDA e : e.method.meth = "set_forces")

\* C1: in every step the input vector is fully in the state buffer before the
\* first stage call runs, no stage call runs after a derivative method, every
\* stage call of the pipeline has run before the first derivative method, and
\* each derivative method finds in the private field what the last set_forces
\* stage call of that step wrote.
C1_StagesBeforeDerivs ==
    Stepped =>
        /\ \A n \in DOMAIN trace :
               trace[n].kind = "stage" => trace[n].seen = SeenFor(result.vec)
        /\ \A m, n \in DOMAIN trace :
               (m < n /\ trace[m].kind = "deriv") => trace[n].kind = "deriv"
        /\ DerivEntries # <<>> => Len(StageEntries) = Len(stage_calls)
        /\ ForceEntries # <<>> =>
               LET s == ForceEntries[Len(ForceEntries)]
               IN  \A n \in DOMAIN DerivEntries :
                       DerivEntries[n].F =
                           [x \in Objs |->
                               ForceOf(s.method.obj, DictGet(SeenFor(result.vec), "p"),
                                       result.t)]

\* A step in which a stage call changed the private field and a derivative
\* method then ran.
C1_Witness ==
    /\ Stepped /\ result.err = "none"
    /\ ForceEntries # <<>> /\ DerivEntries # <<>>
    /\ F # result.F0
    /\ \E n \in DOMAIN result.vec : result.vec[n] # 0

\* C2: within one step every method sees the state of the input vector, the
\* state buffer still equals the input vector when the step ends, and the
\* return views all lie over the return buffer, never over the state buffer.
C2_SameStateForAllDerivs ==
    Stepped =>
        /\ state_vec = result.vec
        /\ \A n \in DOMAIN trace : trace[n].seen = SeenFor(result.vec)
        /\ \A n \in DOMAIN ret : ret[n][2].buf = "ret_vec"
        /\ \A n \in DOMAIN state : state[n][2].buf = "state_vec"

\* A step in which two derivative methods ran and wrote a return buffer that
\* differs from the state.
C2_Witness ==
    /\ Stepped /\ result.err = "none"
    /\ Len(DerivEntries) = 2
    /\ ret_vec # state_vec
    /\ \E n \in DOMAIN ret_vec : ret_vec[n] # 0

\* C3: a step invokes the stage calls in the order of the pipeline, each at
\* most once and each with the read-only state view mapping, the step's t and
\* its log; a step that returns has invoked every one of them.
C3_StageCallsInOrder ==
    Stepped =>
        /\ Len(StageEntries) <= Len(stage_calls)
        /\ \A n \in DOMAIN StageEntries :
               /\ StageEntries[n].name = stage_calls[n][1]
               /\ StageEntries[n].method = stage_calls[n][2]
               /\ StageEntries[n].views = state
               /\ \A k \in DOMAIN state : ~state[k][2].writeable
               /\ StageEntries[n].t = result.t
               /\ StageEntries[n].log = result.log
        /\ result.err = "none" => Len(StageEntries) = Len(stage_calls)

\* A step that returned after invoking two different stage calls.
C3_Witness ==
    /\ Stepped /\ result.err = "none"
    /\ Len(stage_calls) = 2 /\ stage_calls[1] # stage_calls[2]
    /\ Len(StageEntries) = 2
    /\ result.log = "log"

\* The derivative entry of the last-registered method that returned key k.
LastRegisteredReturning(k) ==
    LET returning == SelectSeq(regOrder, LAMBDA c :
                         \E n \in DOMAIN DerivEntries :
                             /\ DerivEntries[n].name = c
                             /\ DictHas(DerivEntries[n].returned, k))
        c == returning[Len(returning)]
    IN  DerivEntries[CHOOSE n \in DOMAIN DerivEntries : DerivEntries[n].name = c]

\* C4: a step that returns has invoked the derivative methods in the order of
\* their registration, and the range of every returned name holds the value
\* the last-registered method returning it gave.
C4_LastRegisteredWins ==
    (Stepped /\ result.err = "none") =>
        /\ [n \in DOMAIN DerivEntries |-> DerivEntries[n].name] = regOrder
        /\ \A k \in DOMAIN ret :
               (\E n \in DOMAIN DerivEntries : DictHas(DerivEntries[n].returned, ret[k][1]))
                   => ViewRead(Bufs(state_vec, ret_vec), ret[k][2])
                        = DictGet(LastRegisteredReturning(ret[k][1]).returned, ret[k][1])

\* C5: two consecutive steps with the same vector, time and log, entered with
\* the same private fields, return the same vector.
C5_StepDeterminism ==
    [][ ( /\ result.op = "step" /\ result.err = "none"
          /\ result'.op = "step" /\ result'.err = "none"
          /\ result'.vec = result.vec /\ result'.t = result.t
          /\ result'.log = result.log /\ result'.F0 = result.F0 )
        => result'.out = result.out ]_vars

\* The second of two such steps, with a stage call that writes the private
\* fields and derivative methods that returned non-zero values.
C5_Witness ==
    /\ Stepped /\ result.err = "none" /\ result.again
    /\ DerivEntries # <<>>
    /\ ForceEntries # <<>>
    /\ \E n \in DOMAIN result.out : result.out[n] # 0

PokeEntries == {n \in DOMAIN trace : trace[n].method.meth = "poke"}

\* C7: the state views are read-only views of the state buffer and are the
\* mapping every stage call and derivative method is handed; a method that
\* writes through one gets ValueError and the state buffer still holds the
\* input vector; the return views are writable, and what the last derivative
\* method of a step scattered through them is read back through the views and
\* from the flat return vector.
C7_WriteIsolation ==
    /\ \A k \in DOMAIN state :
           ~state[k][2].writeable /\ state[k][2].buf = "state_vec"
    /\ \A k \in DOMAIN ret : ret[k][2].writeable /\ ret[k][2].buf = "ret_vec"
    /\ \A n \in DOMAIN trace : trace[n].views = state
    /\ \A n \in PokeEntries :
           /\ n = Len(trace)
           /\ result.err \in {"ValueError", "KeyError"}
           /\ result.err = "ValueError" => state_vec = result.vec
    /\ (Stepped /\ result.err = "none" /\ DerivEntries # <<>>) =>
           LET last == DerivEntries[Len(DerivEntries)].returned
           IN  \A n \in DOMAIN last :
                   /\ ViewRead(Bufs(state_vec, ret_vec), DictGet(ret, last[n][1]))
                          = last[n][2]
                   /\ SliceRead(result.out, SlicerGetSlice(slicer, last[n][1]))
                          = last[n][2]

\* A step in which poke was refused, after an earlier step had written
\* non-zero derivatives through the return views.
C7_Witness ==
    /\ result.op = "step" /\ result.err = "ValueError"
    /\ PokeEntries # {}
    /\ state_vec = result.vec
    /\ \E n \in DOMAIN state_vec : state_vec[n] # 9
    /\ \E n \in DOMAIN ret_vec : ret_vec[n] # 0

\* ------------------------------------------------------- claims about Slicer

\* The ranges follow insertion order, each starting where the one before it
\* ends, from 0 up to length.
Contiguous(slices, length) ==
    /\ \A n \in DOMAIN slices :
           /\ slices[n][2][1] = (IF n = 1 THEN 0 ELSE slices[n - 1][2][2])
           /\ slices[n][2][1] <= slices[n][2][2]
    /\ length = (IF slices = <<>> THEN 0 ELSE slices[Len(slices)][2][2])

\* C6: after any sequence of add / add_dict calls the slices are pairwise
\* disjoint, cover exactly [0, length) and follow insertion order.
C6_SliceContiguity == Contiguous(sl.slices, sl.i)

Arity(slc) == slc[2] - slc[1]

\* The mapping the vector was built from has, for every name, a value of the
\* arity the name was registered with.
MatchingArities(src) ==
    \A n \in DOMAIN src :
        /\ DictHas(sl.slices, src[n][1])
        /\ Len(src[n][2]) = Arity(SlicerGetSlice(sl, src[n][1]))

\* C8: when get_state directly follows a get_state_vec of a mapping whose
\* values have the registered arities, every view it returns reads the value
\* the mapping gave for its name.
C8_RoundTrip ==
    ( /\ sl_result.op = "get_state" /\ sl_result.err = "none"
      /\ sl_result.src # <<>>
      /\ MatchingArities(sl_result.src) )
    => \A j \in DOMAIN sl_views :
           DictHas(sl_result.src, sl_views[j][1]) =>
               ViewRead([sl_vec |-> sl_vec], sl_views[j][2])
                   = DictGet(sl_result.src, sl_views[j][1])

\* A round trip of two names of different arities, read back in the order
\* opposite to the one they were registered in.
C8_Witness ==
    /\ sl_result.op = "get_state" /\ sl_result.err = "none"
    /\ Len(sl_result.src) = 2
    /\ MatchingArities(sl_result.src)
    /\ Len(sl_views) = 2
    /\ Len(sl.slices) = 2
    /\ sl_views[1][1] = sl.slices[2][1]
    /\ Len(sl_result.src[1][2]) # Len(sl_result.src[2][2])

\* C10: an add of a name that already has a slice fails with a
\* duplicate-variable error and leaves the slices and the length as they were.
C10_DuplicateAddRejected ==
    [][ (sl_result'.op = "add" /\ DictHas(sl.slices, sl_result'.key))
        => (sl_result'.err = "DuplicateVariableError" /\ sl' = sl) ]_vars

\* ------------------------------------------------------- claims about Solver

\* Two connected Partials declare the same variable name.
DeclaredTwice(ps) ==
    \E i, j \in DOMAIN ps :
        /\ i < j
        /\ \E n \in DOMAIN npsolve_vars[ps[i]] :
               DictHas(npsolve_vars[ps[j]], npsolve_vars[ps[i]][n][1])

\* C9: an npsolve_init over Partials that declare a name twice raises KeyError
\* and builds nothing; so the Partials whose step methods the Solver calls
\* never declare a name twice, and no step fails.
C9_DuplicateFailsAtInit ==
    /\ [][ (solver_result'.op = "npsolve_init" /\ DeclaredTwice(partials))
           => /\ solver_result'.err = "KeyError"
              /\ UNCHANGED <<solverBufs, pshared>> ]_vars
    /\ [](solver_ready => ~DeclaredTwice(step_methods))
    /\ [](solver_result.op = "step" => solver_result.err \in {"none", "AttributeError"})

\* An npsolve_init that failed on two different Partials declaring the same
\* name, before any buffer existed.
C9_Witness ==
    /\ solver_result.op = "npsolve_init" /\ solver_result.err = "KeyError"
    /\ Len(partials) = 2 /\ partials[1] # partials[2]
    /\ DeclaredTwice(partials)
    /\ ~solver_ready /\ npsolve_state = <<>> /\ npsolve_state_dct = <<>>

\* ------------------------------------------------ claims about registration

\* C11: an add_component of a name that is already in the registry fails with
\* a duplicate-component error and replaces nothing.
C11_DuplicateNameRejected ==
    [][ ( /\ result'.op = "add_component" /\ nRegs' # nRegs
          /\ DictHas(components, result'.args[2]) )
        => ( /\ result'.err = "DuplicateComponentError"
             /\ components' = components
             /\ deriv_methods' = deriv_methods ) ]_vars

\* C12: an add_component whose derivative method name is no attribute of the
\* object fails at that call with the method-not-found error (AttributeError),
\* and every derivative method in the registry exists.
C12_MissingMethodRejected ==
    /\ ( /\ result.op = "add_component"
         /\ result.args[3] # "None"
         /\ ~HasAttr(result.args[1], result.args[3]) )
       => result.err = "AttributeError"
    /\ \A n \in DOMAIN deriv_methods :
           HasAttr(deriv_methods[n][2].obj, deriv_methods[n][2].meth)

\* C13: add_stage_call raises KeyError for a name that is not registered and
\* AttributeError for a method the component does not have, leaving the
\* pipeline as it was; otherwise it appends the one pair (name, bound method).
C13_AddStageCall ==
    [][ (result'.op = "add_stage_call" /\ nRegs' # nRegs) =>
           LET n == result'.args[1]
               m == result'.args[2]
           IN  IF ~DictHas(components, n)
               THEN result'.err = "KeyError" /\ stage_calls' = stage_calls
               ELSE IF ~HasAttr(DictGet(components, n), m)
               THEN result'.err = "AttributeError" /\ stage_calls' = stage_calls
               ELSE /\ result'.err = "none"
                    /\ Len(stage_calls') = Len(stage_calls) + 1
                    /\ SubSeq(stage_calls', 1, Len(stage_calls)) = stage_calls
                    /\ stage_calls'[Len(stage_calls')] =
                           <<n, [obj |-> DictGet(components, n), meth |-> m]>> ]_vars

\* An add_stage_call that failed on a missing method of a registered
\* component, with a pipeline that already held a pair.
C13_Witness ==
    /\ result.op = "add_stage_call" /\ result.err = "AttributeError"
    /\ DictHas(components, result.args[1])
    /\ stage_calls # <<>>

\* C14: every record of the pipeline names a registered component and holds
\* a method of the object now registered under that name.
C14_StageRecordsResolved ==
    \A n \in DOMAIN stage_calls :
        /\ DictHas(components, stage_calls[n][1])
        /\ stage_calls[n][2].obj = DictGet(components, stage_calls[n][1])
        /\ HasAttr(stage_calls[n][2].obj, stage_calls[n][2].meth)

\* C15: after a set_stage_calls that succeeds the pipeline is the given pairs,
\* resolved, in the given order.
C15_SetStageCallsReplaces ==
    (result.op = "set_stage_calls" /\ result.err = "none") =>
        /\ Len(stage_calls) = Len(result.args)
        /\ \A n \in DOMAIN stage_calls :
               /\ stage_calls[n][1] = result.args[n][1]
               /\ stage_calls[n][2] =
                      [obj |-> DictGet(components, result.args[n][1]),
                       meth |-> result.args[n][2]]

\* A set_stage_calls of two pairs that succeeded on a pipeline that held one
\* pair.
C15_Witness ==
    /\ result.op = "set_stage_calls" /\ result.err = "none"
    /\ Len(result.args) = 2
    /\ result.had = 1

\* --------------------------------------------- claims about a step's effects

\* C16: a step leaves the registry, the derivative methods, the pipeline, the
\* Slicer, the views, the inits and the snapshot as they were and keeps the
\* lengths of both buffers; the vector it returns is the return buffer and has
\* the length of the input vector, which is the Slicer's length.
C16_StepFrame ==
    [][ result'.op = "step" =>
          /\ UNCHANGED <<components, deriv_methods, stage_calls, ready, slicer,
                         state, ret, inits, init_vec>>
          /\ Len(state_vec') = Len(state_vec)
          /\ Len(ret_vec') = Len(ret_vec)
          /\ result'.err = "none" =>
                 /\ result'.out = ret_vec'
                 /\ Len(result'.out) = Len(result'.vec)
                 /\ Len(result'.out) = slicer.i ]_vars

\* A step that returned after it ran a stage call and a derivative method and
\* changed both buffers.
C16_Witness ==
    /\ Stepped /\ result.err = "none"
    /\ StageEntries # <<>> /\ DerivEntries # <<>>
    /\ state_vec # init_vec
    /\ result.out # Zeros(Len(result.out))

\* C17: once set up, the snapshot holds for every name the initial value
\* handed to setup, whatever vectors were stepped since.
C17_SnapshotIndependent ==
    ready =>
        /\ Len(init_vec) = DictTotalLen(inits)
        /\ \A n \in DOMAIN inits :
               SliceRead(init_vec, SlicerGetSlice(slicer, inits[n][1])) = inits[n][2]

\* A step has left in the state buffer a vector other than the initial one.
C17_Witness ==
    /\ Stepped /\ result.err = "none"
    /\ state_vec = result.vec
    /\ state_vec # init_vec
    /\ \E n \in DOMAIN init_vec : init_vec[n] # 0

\* ------------------------------------------------- claims about step methods

\* C18: from every set-up state, for every vector and time, tstep(t, vec) and
\* step(vec, t) call the same methods in the same order with the same
\* arguments, leave the same buffers, and both return or both fail.
C18_TStepIsStep ==
    solver_ready =>
        \A v \in VecChoices(Len(npsolve_state)), t \in Times :
            /\ SolverTStepBody(t, v, <<>>).calls = SolverStepBody(v, <<t>>).calls
            /\ SolverTStepBody(t, v, <<>>).bufs = SolverStepBody(v, <<t>>).bufs
            /\ (SolverTStepBody(t, v, <<>>).err = "none")
                   <=> (SolverStepBody(v, <<t>>).err = "none")

\* The step method of this Partial raises.
Raises(p) == step_kind[p] \in {"TypeError", "KeyError"}

\* C19: when a step method raises during tstep, tstep fails with an error
\* that names that method, returns no vector, and has called no method after
\* it.
C19_RaiseIsAttributed ==
    (solver_result.op = "tstep" /\ solver_result.calls # <<>>) =>
        LET calls == solver_result.calls
        IN  /\ \A n \in DOMAIN calls : Raises(calls[n][1]) => n = Len(calls)
            /\ Raises(calls[Len(calls)][1]) =>
                   /\ solver_result.err # "none"
                   /\ solver_result.out = <<>>
                   /\ solver_result.blames = calls[Len(calls)][1]

\* The derivative method of this trace entry returned None.
ReturnedNone(e) == e.kind = "deriv" /\ e.method.meth # "get_derivs"

\* C20: when a derivative method returns None, the step fails with an error
\* that names that method, returns no vector, and has called no derivative
\* method after it.
C20_NonMappingRejected ==
    \A n \in DOMAIN trace :
        ReturnedNone(trace[n]) =>
            /\ n = Len(trace)
            /\ result.err # "none"
            /\ result.out = <<>>
            /\ result.blames = trace[n].name

\* ------------------------------------------------ claims about the Integrator

\* The run has returned its dict.
Returned == i_pc = "idle" /\ i_result.op = "run" /\ i_result.err = "none"

\* The events of the run during which status[STOP] was set.
StopEvents == {n \in DOMAIN i_trace : i_trace[n].stop}

\* The first event of the run during which status[STOP] was set.
FirstStop == CHOOSE n \in StopEvents : \A m \in StopEvents : n <= m

RegularGrid(end, rate) ==
    [k \in 1..(FInt(FMul(end, <<rate, 1>>)) + 1) |-> Frac(k - 1, rate)]

\* C22: the output grid run builds has floor(end * framerate) + 1 samples at
\* the whole multiples of 1/framerate, and the spacing run uses is 1/framerate.
C22_FrameRateRounding ==
    i_result.op \in {"running", "run"} =>
        /\ i_run.x_vec = RegularGrid(i_run.end, framerate)
        /\ i_pc \in {"loop", "integrate", "final", "last"} =>
               i_run.dt = Frac(1, framerate)

\* The largest whole multiple of 1/rate that does not exceed end.
LastFrameTime(end, rate) == Frac(FInt(FMul(end, <<rate, 1>>)), rate)

\* C23: in a returned run that was not stopped early (the stop flag was not
\* set and the underlying integrator did not fail), no logged time is beyond
\* end and the last one is the largest whole multiple of 1/framerate that does
\* not exceed end.
C23_NoOvershoot ==
    (Returned /\ ~i_result.early /\ i_run.successful) =>
        /\ \A n \in DOMAIN i_result.times :
               ~FLess(i_run.end, i_result.times[n])
        /\ i_result.times[Len(i_result.times)] = LastFrameTime(i_run.end, framerate)

\* The evaluations made by the tstep of frame k.
FrameEvals(k) ==
    {n \in DOMAIN i_trace : i_trace[n].ev = "frame" /\ i_trace[n].frame = k}

\* C24: status[FINAL] is set during an evaluation exactly when it is the
\* tstep of an output frame, each frame in the solution has exactly one such
\* evaluation, the flag is clear whenever run is not inside such a tstep, and
\* a returned run holds one component entry per frame.
C24_FinalFlag ==
    /\ \A n \in DOMAIN i_trace :
           i_trace[n].ev # "integrate" =>
               (i_trace[n].final <=> i_trace[n].ev = "frame")
    /\ status.final <=> i_pc \in {"initial", "final"}
    /\ i_pc \in {"loop", "last"} =>
           \A k \in 0..(Len(i_run.solution) - 1) : Cardinality(FrameEvals(k)) = 1
    /\ Returned =>
           /\ Len(i_result.aux) = i_result.frames
           /\ \A k \in 0..(i_result.frames - 1) : Cardinality(FrameEvals(k)) = 1

\* A returned run of three frames whose integrate() calls made evaluations of
\* their own.
C24_Witness ==
    /\ Returned
    /\ i_result.frames = 3
    /\ Len(i_result.aux) = 3
    /\ \E n \in DOMAIN i_trace : i_trace[n].ev = "internal"

\* C25: when run returns, the stop flag is clear; what it returns holds
\* nothing logged before the run; and it is stopped early only by a stop flag
\* set during the run, never by one left set before it.
C25_RunsIndependent ==
    [][(i_pc = "last" /\ i_pc' = "idle") =>
           /\ ~status'.stop
           /\ Stale \notin Range(i_result'.aux)
           /\ Stale \notin Range(i_result'.times)
           /\ i_result'.early => \E n \in DOMAIN i_trace : i_trace[n].sets]_vars

\* A run that returned three frames, not stopped early, although the stop flag
\* was set and values were logged before it; it followed an early-stopped run.
C25_Witness ==
    /\ Returned
    /\ i_result.had.stop
    /\ i_result.had.stale
    /\ ~i_result.early
    /\ i_result.frames = 3
    /\ ~status.stop

\* ---------------------------------------------------- claims about the caches

StepOps == {"step", "tstep", "one_way_step"}

\* The cached methods of the Partials the Solver was initialised with.
InitialisedMethods == Range(CachedMethodsOfAll(step_methods))

\* C26: in every step, tstep and one_way_step of an initialised Solver, a
\* cached method called by a step method returns what its function computes
\* from the arguments of a call made in this same step, and after the step the
\* caches of all cached methods of the initialised Partials hold only results
\* stored by calls of this step: nothing cached before the step survives it.
C26_StepClearsCaches ==
    (solver_result.op \in StepOps /\ solver_ready) =>
        LET cached == solver_result.cached
        IN  /\ \A n \in DOMAIN cached :
                   \E k \in 1..n :
                       /\ cached[k].executed
                       /\ cached[k].method = cached[n].method
                       /\ cached[k].inst = cached[n].inst
                       /\ cached[n].out = UserFunction(cached[k].arg)
            /\ \A m \in InitialisedMethods :
                   \A e \in Range(solver_result.stored[m]) :
                       \E k \in DOMAIN cached :
                           /\ cached[k].method = m
                           /\ CacheKey(m, cached[k].inst, cached[k].arg) = e[1]
                           /\ UserFunction(cached[k].arg) = e[2]

\* A step of two Partials, made with caching on while the caches of mono,
\* mono_b and multi held results of other arguments: both cached methods
\* computed afresh and the entry of mono_b is gone.
C26_Witness ==
    /\ solver_result.op = "step" /\ solver_result.err = "none"
    /\ Len(solver_result.cached) = 2
    /\ \A m \in CachedNames : cache_enabled[m]
    /\ solver_result.had["mono"] = <<<<<<"pa">>, <<0>>>>>>
    /\ solver_result.had["mono_b"] # <<>>
    /\ solver_result.had["multi"] = <<<<<<"pb", 0>>, <<0>>>>>>
    /\ solver_result.vec[1] = 1
    /\ solver_result.stored["mono"] = <<<<<<"pa">>, <<1>>>>>>
    /\ solver_result.stored["mono_b"] = <<>>

\* C27: with caching on, a call of a mono_cached method on an instance returns
\* the result of the first call of that method on that instance since the
\* method's cache was last emptied, whatever its argument; each method has its
\* own cache.
C27_MonoCached ==
    (cache_result.op = "call" /\ cache_result.enabled
         /\ cache_result.method \in MonoNames) =>
        /\ cache_result.out = cache_first[cache_result.method][cache_result.inst]
        /\ cache_result.executed =>
               cache_result.out = UserFunction(cache_result.arg)

\* A call mono(2) that returned the result of mono(1), while mono_b on the same
\* instance and mono on the other instance hold results of their own.
C27_Witness ==
    /\ cache_result.op = "call" /\ cache_result.enabled
    /\ cache_result.method = "mono" /\ cache_result.inst = "pa"
    /\ cache_result.arg = 2
    /\ cache_result.out = <<1>>
    /\ ~cache_result.executed
    /\ cache_first["mono_b"]["pa"] = <<2>>
    /\ cache_first["mono"]["pb"] = <<2>>

\* C28: a call made while caching is off executes the wrapped function and
\* returns its fresh result, and the cache of a method whose caching is off is
\* empty, so that nothing stored before a cache_disable is there to be
\* returned after a later cache_enable.
C28_OffUntilEnabled ==
    /\ (cache_result.op = "call" /\ ~cache_result.enabled) =>
           /\ cache_result.executed
           /\ cache_result.out = UserFunction(cache_result.arg)
    /\ \A m \in CachedNames : ~cache_enabled[m] => cache[m] = <<>>
    /\ (cache_result.op = "call" /\ ~cache_result.executed) =>
           /\ cache_result.enabled
           /\ cache_enabled[cache_result.method]

\* A call of multi made with caching off, after a cache_disable emptied a
\* cache of multi that held a result, and such a call of mono before it.
C28_Witness ==
    /\ cache_result.op = "call" /\ ~cache_result.enabled
    /\ cache_result.method = "multi"
    /\ cache_result.dropped["multi"] /\ cache_result.dropped["mono"]
    /\ cache_result.executed
    /\ cache_result.out = <<2>>

\* ------------------------------------------------------ claims about the views

\* What a Partial reads for variable name through the views it was handed.
Seen(name) ==
    ViewRead(SolverBufs(npsolve_state, npsolve_ret), DictGet(npsolve_state_dct, name))

\* C29: after any step of an initialised Solver, every Partial it was
\* initialised with holds the Solver's view mapping, the mapping is the one
\* npsolve_init built, and each view shows the sub-range of the vector handed
\* to the step that belongs to its variable.
C29_ViewsAreLive ==
    (solver_result.op = "step" /\ solver_ready) =>
        /\ \A p \in Range(step_methods) : pshared[p]
        /\ npsolve_state_dct = MakeDcts(npsolve_slices).state_dct
        /\ \A n \in DOMAIN npsolve_slices :
               Seen(npsolve_slices[n][1])
                   = SliceRead(solver_result.vec, npsolve_slices[n][2])

\* A step of two Partials with a vector that differs from the initial values
\* in every variable: the views no longer show the initial values.
C29_Witness ==
    /\ solver_result.op = "step" /\ solver_result.err = "none"
    /\ Len(step_methods) = 2
    /\ solver_result.vec = <<0, 0, 0>>
    /\ npsolve_initial_values # solver_result.vec
    /\ \A n \in DOMAIN npsolve_slices :
           Seen(npsolve_slices[n][1])
               # SliceRead(npsolve_initial_values, npsolve_slices[n][2])

\* ------------------------------------------------------- claims about V_Set

\* C30: every step taken on a locked V_Set leaves it locked with its mapping
\* and size unchanged, and an add made on it raises RuntimeError.
C30_LockedRejectsAdd ==
    [][vs_locked =>
           /\ vs_locked'
           /\ vs_dct' = vs_dct
           /\ vs_n' = vs_n
           /\ vs_result'.op = "add" => vs_result'.err = "RuntimeError"]_vars

\* An add refused by a set of two names and size 4 that was locked by lock().
C30_Witness ==
    /\ vs_result.op = "add" /\ vs_result.locked
    /\ vs_result.err = "RuntimeError"
    /\ Len(vs_dct) = 2 /\ vs_n = 4
    /\ vs_locked

\* ------------------------------------------- claims about the return buffer

\* The return view of this name was written by no derivative method of the
\* step whose trace is tr.
Unwritten(tr, name) ==
    \A n \in DOMAIN tr : tr[n].kind = "deriv" => ~DictHas(tr[n].returned, name)

\* C31: the vector a caller kept from a step made since the last setup shows
\* what the return buffer holds after every later step; a step leaves as it
\* was the range of every variable for which no derivative method returned a
\* value; and the return buffer setup builds is all zero.
C31_ReturnBufferReused ==
    /\ [](held.kept => HeldRead(held, ret_vec) = ret_vec)
    /\ [][ (result'.op = "step" /\ ready) =>
              \A k \in DOMAIN ret :
                  Unwritten(trace', ret[k][1]) =>
                      ViewRead(Bufs(state_vec', ret_vec'), ret[k][2])
                          = ViewRead(Bufs(state_vec, ret_vec), ret[k][2]) ]_vars
    /\ [][ result'.op = "setup" => ret_vec' = Zeros(Len(ret_vec')) ]_vars

\* After a step whose vector the caller kept, a later step returned with
\* other values: the kept vector no longer shows what it showed when it was
\* returned, and a range no derivative method wrote in the later step still
\* holds the non-zero value of the earlier one.
C31_Witness ==
    /\ held.kept /\ held.alias
    /\ held.val # ret_vec
    /\ result.op = "step" /\ result.err = "none"
    /\ trace # <<>>
    /\ \E k \in DOMAIN ret :
           /\ Unwritten(trace, ret[k][1])
           /\ ViewRead(Bufs(state_vec, ret_vec), ret[k][2])
                  # Zeros(Len(ViewRead(Bufs(state_vec, ret_vec), ret[k][2])))

\* ---------------------------------------- claims about repeated registration

\* C32: an add_component given no derivative method name leaves the
\* derivative methods as they were, and no add_component touches the pipeline
\* or the derivative method of another name; a step that returns has called
\* exactly the derivative methods and stage calls the registries hold,
\* whatever object the components registry now has under their names.
C32_StaleCallables ==
    /\ [][ (result'.op = "add_component" /\ nRegs' # nRegs) =>
              /\ stage_calls' = stage_calls
              /\ result'.args[3] = "None" => deriv_methods' = deriv_methods
              /\ \A n \in DOMAIN deriv_methods :
                     deriv_methods[n][1] # result'.args[2] =>
                         /\ n \in DOMAIN deriv_methods'
                         /\ deriv_methods'[n] = deriv_methods[n] ]_vars
    /\ []( (Stepped /\ result.err = "none") =>
              /\ [n \in DOMAIN DerivEntries |->
                     <<DerivEntries[n].name, DerivEntries[n].method>>] = deriv_methods
              /\ [n \in DOMAIN StageEntries |->
                     <<StageEntries[n].name, StageEntries[n].method>>] = stage_calls )

\* A step that returned after "c1" was registered again with another object
\* and no derivative method name: it called the derivative method and the
\* stage call of the object registered first.
C32_Witness ==
    /\ Stepped /\ result.err = "none"
    /\ DictHas(components, "c1") /\ DictGet(components, "c1") = "o2"
    /\ DerivEntries # <<>> /\ StageEntries # <<>>
    /\ DerivEntries[1].name = "c1" /\ DerivEntries[1].method.obj = "o1"
    /\ StageEntries[1].name = "c1" /\ StageEntries[1].method.obj = "o1"

\* C33: after an add_component that raised, the component is in the registry
\* under the given name, the derivative methods are as they were before the
\* call, and an add_stage_call of that name with a method of the object
\* resolves to the object.
C33_FailedAddStores ==
    /\ [][ (result'.op = "add_component" /\ nRegs' # nRegs /\ result'.err # "none")
              => /\ deriv_methods' = deriv_methods
                 /\ components' = DictPut(components, result'.args[2], result'.args[1])
          ]_vars
    /\ []( (result.op = "add_component" /\ result.err # "none") =>
              /\ DictHas(components, result.args[2])
              /\ DictGet(components, result.args[2]) = result.args[1]
              /\ LET r == StageCallAdded(stage_calls, result.args[2], "set_forces")
                 IN  /\ r.err = "none"
                     /\ r.calls[Len(r.calls)] =
                            <<result.args[2],
                              [obj |-> result.args[1], meth |-> "set_forces"]>> )

\* The first registration call of a Package was an add_component that raised:
\* the registry holds the component and there is no derivative method.
C33_Witness ==
    /\ nRegs = 1
    /\ result.op = "add_component" /\ result.err # "none"
    /\ components = <<<<result.args[2], result.args[1]>>>>
    /\ deriv_methods = <<>>

\* C34: after a set_stage_calls that raised on its k-th pair the pipeline
\* holds the first k-1 pairs of the given list, resolved, and nothing else.
C34_SetStageCallsPartial ==
    (result.op = "set_stage_calls" /\ result.err # "none") =>
        \E k \in DOMAIN result.args :
            /\ Len(stage_calls) = k - 1
            /\ \A n \in 1..(k - 1) :
                   stage_calls[n] =
                       <<result.args[n][1],
                         [obj |-> DictGet(components, result.args[n][1]),
                          meth |-> result.args[n][2]]>>
            /\ StageCallAdded(stage_calls, result.args[k][1], result.args[k][2]).err
                   = result.err

\* A set_stage_calls that raised on its second pair, on a pipeline that held
\* two pairs: it now holds one.
C34_Witness ==
    /\ result.op = "set_stage_calls" /\ result.err = "AttributeError"
    /\ result.had = 2
    /\ Len(stage_calls) = 1
    /\ stage_calls[1][1] = result.args[1][1]

\* ------------------------------------- claims about what the instances share

\* The next call of method m executes the function, on whichever instance and
\* with whichever argument it is made.
AllRecompute(m) ==
    \A inst \in Partials, a \in CacheArgs :
        CachedCall(m, inst, a, cache_enabled[m], Caches(cache, cache_first)).executed

\* On every instance, the second of two calls of method m with the same
\* argument is answered from the cache.
ServedOnRepeat(m) ==
    \A inst \in Partials, a \in CacheArgs :
        LET c == CachedCall(m, inst, a, cache_enabled[m], Caches(cache, cache_first))
        IN  ~CachedCall(m, inst, a, cache_enabled[m], c.cch).executed

\* C35: a call is answered from the cache only with a result an earlier call
\* on the same instance stored; after cache_clear or cache_disable of a
\* method, after the construction of one more instance, and after
\* npsolve_finish of a Solver, the next call of the method executes the
\* function on every instance, connected to that Solver or not; after
\* cache_enable and after npsolve_init repeated calls are answered from the
\* cache on every instance.
C35_SharedByClass ==
    /\ [][ \A c \in SharedCalls :
              (cached_call(c[1], c[2], c[3]) /\ ~cache_result'.executed) =>
                  /\ cache_first[c[2]][c[1]] # <<>>
                  /\ DictHas(cache[c[2]], CacheKey(c[2], c[1], c[3]))
                  /\ cache_result'.out = DictGet(cache[c[2]], CacheKey(c[2], c[1], c[3]))
          ]_vars
    /\ [][ \A m \in CachedNames :
              /\ (cache_clear(m) \/ cache_disable(m)) => AllRecompute(m)'
              /\ cache_enable(m) => ServedOnRepeat(m)'
              /\ Partial_init => AllRecompute(m)'
              /\ (npsolve_finish /\ m \in Range(CachedMethodsOfAll(partials))) =>
                     AllRecompute(m)' /\ ~cache_enabled'[m]
              /\ ( /\ npsolve_init /\ solver_result'.err = "none"
                    /\ m \in Range(CachedMethodsOfAll(partials)) ) =>
                     ServedOnRepeat(m)' ]_vars

\* npsolve_finish of a Solver that only "pb" is connected to has emptied the
\* cache of mono, which held a result of "pa", and switched its caching off.
C35_Witness ==
    /\ solver_result.op = "npsolve_finish"
    /\ partials # <<>> /\ "pa" \notin Range(partials)
    /\ DictHas(solver_result.had["mono"], <<"pa">>)
    /\ cache["mono"] = <<>>
    /\ ~cache_enabled["mono"]
    /\ AllRecompute("mono")

\* --------------------------------------------- claims about the logged frames

\* Row n of the trajectory is the frame of the n-th logged time, the first at
\* time 0, and each time is the one before it plus the positive step dt.
Aligned(solution, times, dt) ==
    /\ Len(solution) = Len(times)
    /\ \A n \in DOMAIN times : solution[n] = times[n]
    /\ times # <<>> => times[1] = <<0, 1>>
    /\ \A n \in 1..(Len(times) - 1) :
           /\ times[n + 1] = FAdd(times[n], dt)
           /\ FLess(times[n], times[n + 1])

\* C36: from the start of a run to its end the trajectory has one row per
\* logged time, the first row is the frame of time 0, and the logged times go
\* up by the frame step; the result of a run that returns has as many rows
\* as times, starting at 0 and equally spaced.
C36_RowsMatchTimes ==
    /\ i_pc # "idle" => Aligned(i_run.solution, logger.time, i_run.dt)
    /\ (i_result.op = "run" /\ i_result.err = "none") =>
           /\ i_result.frames = Len(i_result.times)
           /\ i_result.times[1] = <<0, 1>>
           /\ \A n \in 1..(Len(i_result.times) - 1) :
                  /\ FLess(i_result.times[n], i_result.times[n + 1])
                  /\ FSub(i_result.times[n + 1], i_result.times[n])
                         = FSub(i_result.times[2], i_result.times[1])

\* A run that returned four frames, after the underlying integrator had made
\* evaluations of its own.
C36_Witness ==
    /\ i_result.op = "run" /\ i_result.err = "none"
    /\ i_result.frames = 4
    /\ Len(i_result.times) = 4
    /\ \E n \in DOMAIN i_trace : i_trace[n].ev = "internal"

\* ------------------------------------------------ claims about termination

\* The test of the while loop of the run under way.
LoopTest == LoopContinues(i_run.successful, i_run.t, i_run.end, status.stop)

\* C37: inside the loop of run the grid has at least two points and the frame
\* step is positive; every iteration increases the loop time; the loop is
\* left exactly when the time has reached end, the stop flag is set or the
\* integrator has reported failure; a run raises IndexError exactly when its
\* grid has fewer than two points, which is when end is shorter than two
\* frames, and then makes no call of integrate(); and every run that was
\* started returns or raises.
C37_RunTerminates ==
    /\ [](i_pc \in {"loop", "integrate", "final", "last"} =>
             /\ Len(i_run.x_vec) >= 2
             /\ FLess(<<0, 1>>, i_run.dt))
    /\ [][ (i_pc = "loop" /\ i_pc' = "integrate") => FLess(i_run.t, i_run'.t) ]_vars
    /\ [][ (i_pc = "loop" /\ i_pc' # "loop") =>
              /\ i_pc' = "integrate" <=> LoopTest
              /\ i_pc' = "last" <=> ~LoopTest ]_vars
    /\ []( (i_pc = "idle" /\ i_result.op = "run") =>
              /\ i_result.err = "IndexError" <=> Len(i_run.x_vec) < 2
              /\ Len(i_run.x_vec) < 2
                     <=> FLess(FMul(i_run.end, <<framerate, 1>>), <<2, 1>>)
              /\ i_result.err = "IndexError" =>
                     \A n \in DOMAIN i_trace : i_trace[n].ev # "integrate" )
    /\ (i_pc # "idle") ~> (i_pc = "idle")

\* A run of more than two frames that returned because the loop time had
\* reached end: no stop was asked for and the integrator never failed.
C37_Witness ==
    /\ i_pc = "idle" /\ i_result.op = "run" /\ i_result.err = "none"
    /\ i_result.frames >= 3
    /\ ~i_result.early
    /\ i_run.successful
    /\ ~FLess(i_run.t, i_run.end)

\* ------------------------------------------------------- claims about setup

\* C38: a setup leaves the components, the derivative methods, the pipeline
\* and the objects' fields as they were; after it the Slicer lays out the
\* names of the mapping it was given and no other, both buffers have the
\* Slicer's length, the state views read the initial values, the return
\* buffer is zero and the snapshot is the state buffer's content; and every
\* method a step calls is handed the views of the latest setup.
C38_SetupFrame ==
    /\ [][ result'.op = "setup" =>
              /\ UNCHANGED <<components, deriv_methods, stage_calls, F>>
              /\ DictKeys(slicer'.slices) = DictKeys(inits')
              /\ Contiguous(slicer'.slices, slicer'.i)
              /\ slicer'.i = DictTotalLen(inits')
              /\ Len(state_vec') = slicer'.i
              /\ ret_vec' = Zeros(slicer'.i)
              /\ init_vec' = state_vec'
              /\ ViewsRead(Bufs(state_vec', ret_vec'), state') = inits'
              /\ DictKeys(ret') = DictKeys(inits')
              /\ \A k \in DOMAIN ret' :
                     /\ ret'[k][2].buf = "ret_vec"
                     /\ <<ret'[k][2].start, ret'[k][2].stop>>
                            = DictGet(slicer'.slices, ret'[k][1]) ]_vars
    /\ []( Stepped =>
              /\ DictKeys(state) = DictKeys(inits)
              /\ \A n \in DOMAIN trace : trace[n].views = state
              /\ result.err = "none" => Len(result.out) = DictTotalLen(inits) )

\* A step that returned after a second setup, made after the registrations
\* and with a layout of another length than the first: the vector kept from
\* a step before it has the old length.
C38_Witness ==
    /\ Stepped /\ result.err = "none"
    /\ StageEntries # <<>> /\ DerivEntries # <<>>
    /\ ~held.kept /\ held.val # <<>>
    /\ Len(held.val) # Len(ret_vec)
    /\ Len(result.out) = Len(ret_vec)

\* -------------------------------------------- claims about names added again

\* The positions of zip(names, sizes) whose name is not in the set yet.
NewAt(names, sizes, dct) ==
    {n \in 1..Min(Len(names), Len(sizes)) : ~DictHas(dct, names[n])}

\* The sizes of the new names before position n, added up.
RECURSIVE NewSizeBefore(_, _, _, _)
NewSizeBefore(names, sizes, dct, n) ==
    IF n <= 1 THEN 0
    ELSE NewSizeBefore(names, sizes, dct, n - 1)
             + (IF (n - 1) \in NewAt(names, sizes, dct) THEN sizes[n - 1] ELSE 0)

\* C39: an add to an unlocked set, of names of which one is in the set
\* already, raises nothing and leaves every entry of the set as it was; each
\* new name of the call gets the offset the set's size had plus the sizes of
\* the new names before it, as an integer index when its size is 1 and as a
\* half-open slice otherwise; and the size grows by the sizes of the new names
\* only.
C39_AddAgainIsSilent ==
    [][ \A names \in VSetNameLists, sizes \in VSetSizeChoices :
          ( /\ V_Set_add(names, sizes)
            /\ ~vs_locked
            /\ ~(sizes.kind = "int" /\ Len(names) # 1)
            /\ \E n \in DOMAIN names : DictHas(vs_dct, names[n]) ) =>
              LET sz  == VSetSizes(names, sizes)
                  new == NewAt(names, sz, vs_dct)
              IN  /\ vs_result'.err = "none"
                  /\ SubSeq(vs_dct', 1, Len(vs_dct)) = vs_dct
                  /\ Len(vs_dct') = Len(vs_dct) + Cardinality(new)
                  /\ \A n \in new :
                         LET at == vs_n + NewSizeBefore(names, sz, vs_dct, n)
                         IN  /\ DictHas(vs_dct', names[n])
                             /\ DictGet(vs_dct', names[n]) =
                                    [kind |-> IF sz[n] = 1 THEN "int" ELSE "slice",
                                     start |-> at, stop |-> at + sz[n]]
                  /\ vs_n' = vs_n + NewSizeBefore(names, sz, vs_dct,
                                                  Min(Len(names), Len(sz)) + 1) ]_vars

\* "b" was added with size 3; a later add of "b" and "c" with sizes 2 and 1
\* left "b" its slice and gave "c" the integer index 3.
C39_Witness ==
    /\ vs_result.op = "add" /\ vs_result.err = "none" /\ ~vs_locked
    /\ Len(vs_dct) = 2
    /\ vs_dct[1] = <<"b", [kind |-> "slice", start |-> 0, stop |-> 3]>>
    /\ vs_dct[2] = <<"c", [kind |-> "int", start |-> 3, stop |-> 4]>>
    /\ vs_n = 4

====
